---- MODULE Spec2Model ----
(***************************************************************************)
(* Model of the TCP file-transfer coordinator of FileTransferSystem        *)
(* (package transfer): the receive path handleIncoming / receiveFile, the  *)
(* send path SendStream, and the decision API AcceptTransfer /             *)
(* RejectTransfer, together with the history store they record into.       *)
(*                                                                         *)
(* One connection c joins a client end (SendStream, or a raw client that   *)
(* writes a metadata frame and closes, as the package's tests do) and the  *)
(* receive worker handleIncoming(conn) that the listener starts for it.    *)
(*                                                                         *)
(* Beside it: the presence discovery of package discovery (advertiser,     *)
(* listener, device registry, start-up of the background services) and the *)
(* wire codec of the metadata frame (encoding/json as the code uses it).   *)
(***************************************************************************)
EXTENDS Integers, Sequences, FiniteSets, TLC

\* ----- bounds of the model -----
MaxConns == 2        \* inbound connections (one receive worker each)
MaxCalls == 2        \* AcceptTransfer / RejectTransfer calls made by the UI
MaxPendingCalls == 1 \* decision calls made while several connections compete
MaxPayload == 2      \* bytes a client's data source holds
MaxFileSize == 2     \* largest declared fileSize
ChunkSize == 2       \* config.ChunkSize, len(buf) of the streaming loops
MaxMillis == 1       \* distinct readings of time.Now().UnixMilli() in receiveFile
MaxClock == 12       \* seconds the discovery clock runs
MaxNameLen == 2      \* characters in a string field of a metadata frame
MaxPathLen == 3      \* path elements in the fileName of a metadata frame

Conns == 1..MaxConns
Calls == 1..MaxCalls
PendingCalls == 1..MaxPendingCalls
IdOrder == <<"id1", "id2">>      \* transfer ids seen on the wire
Ids == {IdOrder[n] : n \in DOMAIN IdOrder}
NameOrder == <<"f1", "f2">>      \* file names seen on the wire
FileNames == {NameOrder[n] : n \in DOMAIN NameOrder}
Millis == 1..MaxMillis
PayloadBytes == {"a", " "}       \* payload alphabet: a data byte and a blank
NL == "\n"                       \* delimiter json.Encoder.Encode appends

NoFrame == [kind |-> "none", id |-> "", fileSize |-> 0, fileName |-> ""]
BadFrame == [kind |-> "bad", id |-> "", fileSize |-> 0, fileName |-> ""]
NoTransfer == [id |-> "", fileSize |-> 0, transferred |-> 0,
               progress |-> [n |-> 0, d |-> 1], status |-> "none",
               direction |-> "none"]

NoFile == <<"nofile">>            \* no file was created for the connection
NoPath == <<>>                    \* savePath not computed yet

\* ----- discovery -----
Local == "self"                  \* s.deviceID of the local process
DeviceIds == {"self", "peer"}    \* the devices on the multicast group
RegistryKeys == DeviceIds \cup {""}   \* the ids a datagram can carry
UserOf == [self |-> "userB", peer |-> "userA"]   \* who signs in on each device
LivenessWindow == 10             \* GetDevices: time.Since(d.LastSeen) < 10*time.Second
NoDevice == [seen |-> FALSE, username |-> "", lastSeen |-> 0]
JunkDatagram == [id |-> "", username |-> ""]     \* a datagram without a usable id

\* ----- wire codec -----
\* The bytes of a Go string, by how encoding/json treats them: a plain
\* character, the quote (escaped as \"), '<' (escaped as \u003c by the
\* encoder's HTML escaping), and a byte that is not valid UTF-8.
PlainChars == {"a"}
InvalidByte == "xFF"
Chars == PlainChars \cup {"\"", "<", InvalidByte}
ReplacementChar == "uFFFD"       \* U+FFFD, utf8.RuneError
Strings == UNION {[1..n -> Chars] : n \in 0..MaxNameLen}
PlainStrings == UNION {[1..n -> PlainChars] : n \in 0..MaxNameLen}
CodecSizes == 0..MaxFileSize \cup {10, 987}   \* fileSize values, some of several digits
NoMeta == [id |-> <<>>, fileName |-> <<>>, fileSize |-> 0, senderId |-> <<>>,
           senderName |-> <<>>]
NoWire == <<>>

\* ----- save path -----
\* A path is the sequence of its elements below the root; an element is a
\* name and, when receiveFile stamped it, the clock reading in it.
Elem(name) == [name |-> name, ms |-> 0]
DownloadDir == <<Elem("home"), Elem("Downloads")>>   \* homeDir + "/Downloads"
\* the elements of a fileName between its separators: a name, "..", ".", and
\* the empty element of a leading, trailing or doubled separator
PathParts == {"a", "..", ".", ""}
WireNames == UNION {[1..n -> {Elem(x) : x \in PathParts}] : n \in 0..MaxPathLen}
NoName == <<Elem("none")>>

\* ----- locks -----
\* the goroutines whose statements the lock model follows: two receive
\* workers, a decision call, the discovery listener, a GetDevices call
Goroutines == {"worker1", "worker2", "call", "listener", "reader"}
\* Service.mu of package transfer, Service.mu of package discovery
Mutexes == {"transfer", "discovery"}
Unlocked == [writer |-> "", readers |-> {}]

RecvIdentity == "userB"          \* getUsername() on the receiving peer
SendIdentity == "userA"          \* getUsername() on the sending peer

VARIABLES
    cpc,       \* client end of connection c: position in SendStream / raw client
    ckind,     \* "none" | "stream" (SendStream) | "raw" (test client)
    src,       \* bytes left in SendStream's dataReader
    sent,      \* payload bytes the client wrote to the connection so far
    sErr,      \* error SendStream returned ("" = nil / not returned)
    st,        \* the *models.Transfer SendStream created for c
    sTable,    \* sender Service.transfers: id -> connection whose Transfer it holds
    frame,     \* metadata frame in flight, not yet decoded
    c2s,       \* bytes in flight client -> receiver, after the frame (the
               \* unread ones are discarded when the receiver closes)
    s2c,       \* response frames in flight receiver -> client
    cClosed,   \* client end closed (receiver reads EOF after draining)
    sClosed,   \* receiver end closed
    rpc,       \* position of handleIncoming(conn) / receiveFile
    meta,      \* metadata decoded by the worker
    dbuf,      \* decoder.Buffered(): bytes the decoder pulled past the frame
    accepted,  \* the worker's local `accepted`
    timedOut,  \* the worker's select took the time.After branch
    pending,   \* receiver Service.pending: id -> worker whose PendingTransfer it holds
    chan,      \* pt.Response of the PendingTransfer made by worker c (cap 1)
    rt,        \* the *models.Transfer receiveFile created for c
    rTable,    \* receiver Service.transfers: id -> worker whose Transfer it holds
    file,      \* bytes written to the file receiveFile created ("nofile" before)
    ioErr,     \* an I/O error struck the receive on c: a read of the
               \* connection, os.Create, or a write to the file
    history,   \* rows of transfer_history
    evR,       \* events the receive worker of c published
    evS,       \* events SendStream of c published
    callPc,    \* position of Accept/Reject call k
    callId,    \* its id argument
    callVal,   \* TRUE for AcceptTransfer, FALSE for RejectTransfer
    callPt,    \* the PendingTransfer it looked up (its worker), 0 = none
    callRes,   \* "" | "ok" | "notfound"
    disk,      \* paths that exist in config.DownloadDir
    savePath,  \* savePath of receiveFile on connection c
    now,       \* the clock, in seconds
    identity,  \* getUsername() of each device ("" = not signed in)
    session,   \* the user of the device holds a session (signed in, not logged out)
    dgrams,    \* presence datagrams in flight on the multicast group
    devices,   \* Service.devices of the local discovery service
    advertiser, \* broadcastPresence of each device: "start" | "running" | "absent"
    lastTick,  \* what its last pass did: "none" | "wrote" (conn.Write) | "skipped"
    listener,  \* listenDiscovery of the local device: "start" | "listening" | "absent"
    tcpListener, \* listenTCP of the local device: "start" | "listening"
    proc,      \* the process of each device: "up" | "aborted" (log.Fatal)
    mIn,       \* wireMetadata handed to json.Encoder.Encode
    wire,      \* the bytes Encode wrote
    mOut,      \* wireMetadata that json.Decoder.Decode filled
    codecPc,   \* "idle" | "picked" | "encoded" | "decoded"
    wireName,  \* meta.FileName of a frame whose save path is resolved
    joined,    \* savePath that receiveFile computed for it
    created,   \* os.Create(savePath) made the file
    pathPc,    \* "idle" | "picked" | "resolved" | "done"
    lpc,       \* the statement each goroutine of the lock model is at
    mu,        \* the sync.RWMutex of each service: its writer and its readers
    respCount, \* response frames the worker of c has handed to Encode
    dialed     \* the peers SendStream went on to dial after resolving them

fsVars == <<disk, savePath>>
discVars == <<now, identity, session, dgrams, devices, advertiser, lastTick, listener,
              tcpListener, proc>>
xferVars == <<cpc, ckind, src, sent, sErr, st, sTable, frame, c2s, s2c, cClosed, sClosed,
              rpc, meta, dbuf, accepted, timedOut, pending, chan, rt, rTable, file,
              ioErr, history, evR, evS, callPc, callId, callVal, callPt, callRes,
              fsVars>>
frameVars == <<mIn, wire, mOut, codecPc>>
pathVars == <<wireName, joined, created, pathPc>>
lockVars == <<lpc, mu>>
restVars == <<lockVars, respCount, dialed>>
codecVars == <<frameVars, pathVars, restVars>>

vars == <<cpc, ckind, src, sent, sErr, st, sTable, frame, c2s, s2c, cClosed, sClosed,
          rpc, meta, dbuf, accepted, timedOut, pending, chan, rt, rTable, file,
          ioErr, history, evR, evS, callPc, callId, callVal, callPt, callRes,
          fsVars, discVars, codecVars>>

clientVars == <<cpc, ckind, src, sent, sErr, st, sTable, evS>>
workerVars == <<rpc, meta, dbuf, accepted, timedOut, rt, rTable, file, evR>>
callVars == <<callPc, callId, callVal, callPt, callRes>>

\* ----- helpers -----
Min(a, b) == IF a < b THEN a ELSE b

Take(s, n) == SubSeq(s, 1, n)
Drop(s, n) == SubSeq(s, n + 1, Len(s))

Payloads == UNION {[1..n -> PayloadBytes] : n \in 0..MaxPayload}

\* progress is a float64; it is kept as the exact fraction n/d
P100 == [n |-> 100, d |-> 1]
PLeq(p, q) == p.n * q.d <= q.n * p.d
PEq(p, q) == p.n * q.d = q.n * p.d

Event(type, id, t) == [type |-> type, id |-> id, transferred |-> t.transferred,
                       status |-> t.status, progress |-> t.progress]

\* a store whose transfer_history has the id alone for its key
AddHistoryById(h, userEmail, id, direction, status) ==
    IF \E r \in h : r.id = id
    THEN h
    ELSE h \cup {[id |-> id, userEmail |-> userEmail,
                  direction |-> direction, status |-> status]}

\* Store.AddHistory: INSERT ... ON CONFLICT (id, user_email) DO NOTHING
AddHistory(h, userEmail, id, direction, status) ==
    IF \E r \in h : r.id = id /\ r.userEmail = userEmail
    THEN h
    ELSE h \cup {[id |-> id, userEmail |-> userEmail,
                  direction |-> direction, status |-> status]}

\* t.Transferred += n; if t.FileSize > 0 { t.Progress = transferred/fileSize*100 }
AddBytes(t, n) ==
    LET tr == t.transferred + n IN
    [t EXCEPT !.transferred = tr,
              !.progress = IF t.fileSize > 0
                           THEN [n |-> tr * 100, d |-> t.fileSize]
                           ELSE @]

\* the skip loop of receiveFile treats these bytes as delimiter whitespace
IsSpace(b) == b \in {"\n", "\r", " "}

\* the periodic broadcast of the streaming loops (time.Since(lastUpdate) > 1s)
Tick(log, tick, t) == IF tick THEN Append(log, Event("transfer_update", t.id, t)) ELSE log

Init ==
    /\ cpc = [c \in Conns |-> "idle"]
    /\ ckind = [c \in Conns |-> "none"]
    /\ src = [c \in Conns |-> <<>>]
    /\ sent = [c \in Conns |-> <<>>]
    /\ sErr = [c \in Conns |-> ""]
    /\ st = [c \in Conns |-> NoTransfer]
    /\ sTable = [i \in Ids |-> 0]
    /\ frame = [c \in Conns |-> NoFrame]
    /\ c2s = [c \in Conns |-> <<>>]
    /\ s2c = [c \in Conns |-> <<>>]
    /\ cClosed = [c \in Conns |-> FALSE]
    /\ sClosed = [c \in Conns |-> FALSE]
    /\ rpc = [c \in Conns |-> "decode"]
    /\ meta = [c \in Conns |-> NoFrame]
    /\ dbuf = [c \in Conns |-> <<>>]
    /\ accepted = [c \in Conns |-> FALSE]
    /\ timedOut = [c \in Conns |-> FALSE]
    /\ pending = [i \in Ids |-> 0]
    /\ chan = [c \in Conns |-> <<>>]
    /\ rt = [c \in Conns |-> NoTransfer]
    /\ rTable = [i \in Ids |-> 0]
    /\ file = [c \in Conns |-> NoFile]
    /\ ioErr = [c \in Conns |-> FALSE]
    /\ history = {}
    /\ evR = [c \in Conns |-> <<>>]
    /\ evS = [c \in Conns |-> <<>>]
    /\ callPc = [k \in Calls |-> "idle"]
    /\ callId = [k \in Calls |-> ""]
    /\ callVal = [k \in Calls |-> FALSE]
    /\ callPt = [k \in Calls |-> 0]
    /\ callRes = [k \in Calls |-> ""]
    /\ disk = {}
    /\ savePath = [c \in Conns |-> NoPath]
    /\ now = 0
    /\ identity = [d \in DeviceIds |-> ""]
    /\ session = [d \in DeviceIds |-> FALSE]
    /\ dgrams = {}
    /\ devices = [d \in RegistryKeys |-> NoDevice]
    /\ advertiser = [d \in DeviceIds |-> "start"]
    /\ lastTick = [d \in DeviceIds |-> "none"]
    /\ listener = "start"
    /\ tcpListener = "start"
    /\ proc = [d \in DeviceIds |-> "up"]
    /\ mIn = NoMeta
    /\ wire = NoWire
    /\ mOut = NoMeta
    /\ codecPc = "idle"
    /\ wireName = NoName
    /\ joined = NoPath
    /\ created = FALSE
    /\ pathPc = "idle"
    /\ lpc = [g \in Goroutines |-> 1]
    /\ mu = [m \in Mutexes |-> Unlocked]
    /\ respCount = [c \in Conns |-> 0]
    /\ dialed = {}

\* ===== client end =====

\* Ids are interchangeable: the id of a payload-carrying transfer is called id1.
PrimaryId == "id1"
\* and its file is called f1
PrimaryName == "f1"

\* A client that writes one metadata frame (or garbage), then the payload with
\* no separator, and closes: the peer of TestReceiveFileBufferAndWhitespaceFix.
RawClient(c) ==
    /\ cpc[c] = "idle"
    /\ \E fs \in 0..MaxFileSize, P \in Payloads, bad \in BOOLEAN :
          /\ bad => (P = <<>> /\ fs = 0)
          /\ frame' = [frame EXCEPT ![c] =
                          IF bad THEN BadFrame
                          ELSE [kind |-> "meta", id |-> PrimaryId, fileSize |-> fs,
                                fileName |-> PrimaryName]]
          /\ c2s' = [c2s EXCEPT ![c] = <<NL>> \o P]
          /\ sent' = [sent EXCEPT ![c] = P]
    /\ cpc' = [cpc EXCEPT ![c] = "done"]
    /\ ckind' = [ckind EXCEPT ![c] = "raw"]
    /\ cClosed' = [cClosed EXCEPT ![c] = TRUE]
    /\ UNCHANGED <<src, sErr, st, sTable, evS, s2c, sClosed, pending, chan,
                   ioErr, history>>
    /\ UNCHANGED workerVars
    /\ UNCHANGED callVars
    /\ UNCHANGED <<fsVars, discVars, codecVars>>

\* the ids that clients have presented so far
Presented == {frame[d].id : d \in Conns} \cup {meta[d].id : d \in Conns}
\* the file names they carried
PresentedNames == {frame[d].fileName : d \in Conns} \cup {meta[d].fileName : d \in Conns}

\* The client of TestDeduplication: Encode(wireMetadata{ID: transferID}), Close.
\* Any two such clients may present the same id; the frame names no file.
DedupClient(c) ==
    /\ cpc[c] = "idle"
    /\ \A d \in Conns : d < c => cpc[d] # "idle"    \* connections are numbered as they arrive
    /\ \E n \in DOMAIN IdOrder :
          /\ \A m \in 1..(n - 1) : IdOrder[m] \in Presented   \* ids are named as they appear
          /\ frame' = [frame EXCEPT ![c] =
                          [kind |-> "meta", id |-> IdOrder[n], fileSize |-> 0,
                           fileName |-> ""]]
    /\ c2s' = [c2s EXCEPT ![c] = <<NL>>]
    /\ cpc' = [cpc EXCEPT ![c] = "done"]
    /\ ckind' = [ckind EXCEPT ![c] = "dedup"]
    /\ cClosed' = [cClosed EXCEPT ![c] = TRUE]
    /\ UNCHANGED <<src, sent, sErr, st, sTable, evS, s2c, sClosed, pending, chan,
                   ioErr, history>>
    /\ UNCHANGED workerVars
    /\ UNCHANGED callVars
    /\ UNCHANGED <<fsVars, discVars, codecVars>>

\* A sender of an empty file: Encode(wireMetadata{ID, FileName}), Close. Any
\* two senders may use the same file name.
NamedClient(c) ==
    /\ cpc[c] = "idle"
    /\ \A d \in Conns : d < c => cpc[d] # "idle"    \* connections are numbered as they arrive
    /\ \E n \in DOMAIN IdOrder, f \in DOMAIN NameOrder :
          /\ \A m \in 1..(n - 1) : IdOrder[m] \in Presented   \* ids are named as they appear
          /\ \A m \in 1..(f - 1) : NameOrder[m] \in PresentedNames  \* and so are file names
          /\ frame' = [frame EXCEPT ![c] =
                          [kind |-> "meta", id |-> IdOrder[n], fileSize |-> 0,
                           fileName |-> NameOrder[f]]]
    /\ c2s' = [c2s EXCEPT ![c] = <<NL>>]
    /\ cpc' = [cpc EXCEPT ![c] = "done"]
    /\ ckind' = [ckind EXCEPT ![c] = "named"]
    /\ cClosed' = [cClosed EXCEPT ![c] = TRUE]
    /\ UNCHANGED <<src, sent, sErr, st, sTable, evS, s2c, sClosed, pending, chan,
                   ioErr, history>>
    /\ UNCHANGED workerVars
    /\ UNCHANGED callVars
    /\ UNCHANGED <<fsVars, discVars, codecVars>>

\* SendStream up to the first broadcast: resolve the peer, uuid.New(), dial,
\* Encode(meta), create the Transfer in waiting_acceptance.
SendStreamStart(c) ==
    /\ cpc[c] = "idle"
    /\ \E i \in Ids, fs \in 0..MaxFileSize, P \in Payloads :
          /\ i = PrimaryId
          /\ sTable[i] = 0                       \* a fresh uuid
          /\ \A d \in Conns : frame[d].id # i /\ meta[d].id # i
          /\ frame' = [frame EXCEPT ![c] = [kind |-> "meta", id |-> i, fileSize |-> fs,
                                            fileName |-> PrimaryName]]
          /\ c2s' = [c2s EXCEPT ![c] = <<NL>>]
          /\ src' = [src EXCEPT ![c] = P]
          /\ sent' = sent
          /\ LET t == [NoTransfer EXCEPT !.id = i, !.fileSize = fs,
                                         !.status = "waiting_acceptance",
                                         !.direction = "send"] IN
             /\ st' = [st EXCEPT ![c] = t]
             /\ evS' = [evS EXCEPT ![c] = Append(@, Event("transfer_update", i, t))]
          /\ sTable' = [sTable EXCEPT ![i] = c]
    /\ cpc' = [cpc EXCEPT ![c] = "waitresp"]
    /\ ckind' = [ckind EXCEPT ![c] = "stream"]
    /\ UNCHANGED <<sErr, s2c, cClosed, sClosed, pending, chan, ioErr, history>>
    /\ UNCHANGED workerVars
    /\ UNCHANGED callVars
    /\ UNCHANGED <<fsVars, discVars, codecVars>>

\* a SendStream that stores its Transfer record before it dials
StartStepsStoreFirst == <<"GetDevice", "Store", "Dial", "Encode">>

\* the statements of SendStream up to the first broadcast, in program order:
\* s.discovery.GetDevice, net.Dial, Encode(meta), s.transfers[transferID] = t
StartSteps == <<"GetDevice", "Dial", "Encode", "Store">>

\* the statements that can make SendStream return early, and what it returns
StartErrors == [GetDevice |-> "peer not found", Dial |-> "dial peer",
                Encode |-> "send metadata"]

Position(seq, x) == CHOOSE n \in DOMAIN seq : seq[n] = x

\* statement x ran before SendStream returned at the failing statement f
Executed(x, f) == Position(StartSteps, x) < Position(StartSteps, f)

\* SendStream returns early: the peer id is not in the registry, the dial
\* fails, or Encode(meta) fails (the deferred conn.Close then runs)
SendStreamFail(c) ==
    /\ cpc[c] = "idle"
    /\ sTable[PrimaryId] = 0
    /\ \E f \in DOMAIN StartErrors, fs \in 0..MaxFileSize :
          LET t == [NoTransfer EXCEPT !.id = PrimaryId, !.fileSize = fs,
                                      !.status = "waiting_acceptance",
                                      !.direction = "send"] IN
          /\ sErr' = [sErr EXCEPT ![c] = StartErrors[f]]
          /\ IF Executed("Store", f)
             THEN /\ st' = [st EXCEPT ![c] = t]
                  /\ sTable' = [sTable EXCEPT ![PrimaryId] = c]
                  /\ evS' = [evS EXCEPT ![c] = Append(@, Event("transfer_update", t.id, t))]
             ELSE UNCHANGED <<st, sTable, evS>>
          /\ IF Executed("Dial", f)
             THEN /\ cClosed' = [cClosed EXCEPT ![c] = TRUE]
                  /\ frame' = [frame EXCEPT ![c] = BadFrame]   \* no whole frame arrives
             ELSE UNCHANGED <<cClosed, frame>>                 \* no connection was made
    /\ cpc' = [cpc EXCEPT ![c] = "done"]
    /\ ckind' = [ckind EXCEPT ![c] = "stream"]
    /\ UNCHANGED <<src, sent, c2s, s2c, sClosed, pending, chan, ioErr, history>>
    /\ UNCHANGED workerVars
    /\ UNCHANGED callVars
    /\ UNCHANGED <<fsVars, discVars, codecVars>>

\* a sender that files a declined transfer under failed
ResponseStatusFailed(accept) == IF accept THEN "sending" ELSE "failed"

\* if !resp.Accept { t.Status = "rejected" ... } else t.Status = "sending"
ResponseStatus(accept) == IF accept THEN "sending" ELSE "rejected"

\* the error returned when Decode(&resp) fails on the expired read deadline
DeadlineError == "reading response: i/o timeout"

\* json.NewDecoder(conn).Decode(&resp) returned a response frame
SendStreamResponse(c) ==
    /\ cpc[c] = "waitresp"
    /\ s2c[c] # <<>>
    /\ s2c' = [s2c EXCEPT ![c] = Tail(@)]
    /\ IF Head(s2c[c])
       THEN LET t == [st[c] EXCEPT !.status = ResponseStatus(TRUE)] IN
            /\ st' = [st EXCEPT ![c] = t]
            /\ evS' = [evS EXCEPT ![c] = Append(@, Event("transfer_update", t.id, t))]
            /\ cpc' = [cpc EXCEPT ![c] = "stream"]
            /\ UNCHANGED <<sErr, history, cClosed>>
       ELSE LET t == [st[c] EXCEPT !.status = ResponseStatus(FALSE)] IN
            /\ st' = [st EXCEPT ![c] = t]
            /\ evS' = [evS EXCEPT ![c] = Append(@, Event("transfer_update", t.id, t))]
            /\ history' = AddHistory(history, SendIdentity, t.id, "send", "rejected")
            /\ sErr' = [sErr EXCEPT ![c] = "receiver rejected the transfer"]
            /\ cClosed' = [cClosed EXCEPT ![c] = TRUE]
            /\ cpc' = [cpc EXCEPT ![c] = "done"]
    /\ UNCHANGED <<ckind, src, sent, sTable, frame, c2s, sClosed, pending, chan, ioErr>>
    /\ UNCHANGED workerVars
    /\ UNCHANGED callVars
    /\ UNCHANGED <<fsVars, discVars, codecVars>>

\* a Decode with no read deadline: it waits for a frame for ever
DecodeWaitsForFrame(c) == FALSE

\* conn.SetReadDeadline(now + 2 min) precedes the Decode: with no frame to
\* read it returns an error, at the deadline or at end of stream
DecodeReturnsError(c) == s2c[c] = <<>>

\* Decode(&resp) failed: the 2-minute read deadline expired, or the receiver
\* closed the connection without writing a response.
SendStreamNoResponse(c) ==
    /\ cpc[c] = "waitresp"
    /\ DecodeReturnsError(c)
    /\ LET t == [st[c] EXCEPT !.status = "failed"] IN
       /\ st' = [st EXCEPT ![c] = t]
       /\ evS' = [evS EXCEPT ![c] = Append(@, Event("transfer_update", t.id, t))]
    /\ sErr' = [sErr EXCEPT ![c] = IF sClosed[c] THEN "reading response: EOF"
                                   ELSE DeadlineError]
    /\ cClosed' = [cClosed EXCEPT ![c] = TRUE]
    /\ cpc' = [cpc EXCEPT ![c] = "done"]
    /\ UNCHANGED <<ckind, src, sent, sTable, frame, c2s, s2c, sClosed, pending, chan,
                   ioErr, history>>
    /\ UNCHANGED workerVars
    /\ UNCHANGED callVars
    /\ UNCHANGED <<fsVars, discVars, codecVars>>

\* a sender that starts to stream while it waits for the response
MayStreamEarly(c) == cpc[c] \in {"waitresp", "stream"}

\* the streaming loop comes after the Decode of the response and the return
\* on !resp.Accept
MayStream(c) == cpc[c] = "stream"

\* One pass of the streaming loop of SendStream with n > 0: dataReader.Read
\* filled buf[:n], conn.Write sends it (or fails: the receiver closed).
SendStreamChunk(c) ==
    /\ MayStream(c)
    /\ src[c] # <<>>
    /\ \E n \in 1..Min(ChunkSize, Len(src[c])), tick \in BOOLEAN :
          IF sClosed[c]
          THEN LET t == [st[c] EXCEPT !.status = "failed"] IN
               /\ tick = FALSE
               /\ st' = [st EXCEPT ![c] = t]
               /\ evS' = [evS EXCEPT ![c] = Append(@, Event("transfer_update", t.id, t))]
               /\ sErr' = [sErr EXCEPT ![c] = "write: broken pipe"]
               /\ cClosed' = [cClosed EXCEPT ![c] = TRUE]
               /\ cpc' = [cpc EXCEPT ![c] = "done"]
               /\ UNCHANGED <<src, sent, c2s>>
          ELSE LET t == AddBytes(st[c], n) IN
               /\ c2s' = [c2s EXCEPT ![c] = @ \o Take(src[c], n)]
               /\ sent' = [sent EXCEPT ![c] = @ \o Take(src[c], n)]
               /\ src' = [src EXCEPT ![c] = Drop(@, n)]
               /\ st' = [st EXCEPT ![c] = t]
               /\ evS' = [evS EXCEPT ![c] = Tick(@, tick, t)]
               /\ UNCHANGED <<sErr, cClosed, cpc>>
    /\ UNCHANGED <<ckind, sTable, frame, s2c, sClosed, pending, chan, ioErr, history>>
    /\ UNCHANGED workerVars
    /\ UNCHANGED callVars
    /\ UNCHANGED <<fsVars, discVars, codecVars>>

\* dataReader.Read returned io.EOF: leave the loop; t.Status = "completed"
SendStreamCompleted(c) ==
    /\ cpc[c] = "stream"
    /\ src[c] = <<>>
    /\ st' = [st EXCEPT ![c].status = "completed"]
    /\ cpc' = [cpc EXCEPT ![c] = "finish"]
    /\ UNCHANGED <<ckind, src, sent, sErr, sTable, evS, frame, c2s, s2c, cClosed,
                   sClosed, pending, chan, ioErr, history>>
    /\ UNCHANGED workerVars
    /\ UNCHANGED callVars
    /\ UNCHANGED <<fsVars, discVars, codecVars>>

\* t.Progress = 100, the final broadcast, AddHistory, return nil (conn.Close)
SendStreamFinish(c) ==
    /\ cpc[c] = "finish"
    /\ LET t == [st[c] EXCEPT !.progress = P100] IN
       /\ st' = [st EXCEPT ![c] = t]
       /\ evS' = [evS EXCEPT ![c] = Append(@, Event("transfer_update", t.id, t))]
       /\ history' = AddHistory(history, SendIdentity, t.id, "send", "completed")
    /\ cClosed' = [cClosed EXCEPT ![c] = TRUE]
    /\ cpc' = [cpc EXCEPT ![c] = "done"]
    /\ UNCHANGED <<ckind, src, sent, sErr, sTable, frame, c2s, s2c, sClosed,
                   pending, chan, ioErr>>
    /\ UNCHANGED workerVars
    /\ UNCHANGED callVars
    /\ UNCHANGED <<fsVars, discVars, codecVars>>

\* ===== receive path: handleIncoming(conn) =====

recvRest == <<cpc, ckind, src, sent, sErr, st, sTable, evS, s2c, cClosed,
              pending, chan, history>>

\* a decoder that takes any bytes for a metadata frame
DecodeNeverFails(f) == FALSE

\* err := decoder.Decode(&meta); err != nil: the bytes are no JSON value, or
\* the stream ends before one is complete
DecodeFails(f) == f = BadFrame

\* decoder.Decode(&meta): a malformed frame closes the connection; otherwise
\* the decoder keeps in its buffer the k bytes it had pulled past the frame.
handleIncomingDecode(c) ==
    /\ rpc[c] = "decode"
    /\ frame[c] # NoFrame
    /\ IF DecodeFails(frame[c])
       THEN /\ sClosed' = [sClosed EXCEPT ![c] = TRUE]
            /\ rpc' = [rpc EXCEPT ![c] = "done"]
            /\ frame' = [frame EXCEPT ![c] = NoFrame]
            /\ c2s' = [c2s EXCEPT ![c] = <<>>]
            /\ UNCHANGED <<meta, dbuf>>
       ELSE /\ \E k \in 0..Len(c2s[c]) :
                  /\ dbuf' = [dbuf EXCEPT ![c] = Take(c2s[c], k)]
                  /\ c2s' = [c2s EXCEPT ![c] = Drop(@, k)]
            /\ meta' = [meta EXCEPT ![c] = frame[c]]
            /\ frame' = [frame EXCEPT ![c] = NoFrame]
            /\ rpc' = [rpc EXCEPT ![c] = "register"]
            /\ UNCHANGED sClosed
    /\ UNCHANGED <<accepted, timedOut, rt, rTable, file, evR, ioErr>>
    /\ UNCHANGED recvRest
    /\ UNCHANGED callVars
    /\ UNCHANGED <<fsVars, discVars, codecVars>>

\* the receive path without the duplicate guard: every frame is registered
IsDuplicateNever(c) == FALSE

\* if _, ok := s.pending[meta.ID]; ok
IsDuplicate(c) == pending[meta[c].id] # 0

\* the locked section: refuse a duplicate id, else s.pending[meta.ID] = pt;
\* then broadcast("incoming_request", pt)
handleIncomingRegister(c) ==
    /\ rpc[c] = "register"
    /\ IF IsDuplicate(c)
       THEN /\ sClosed' = [sClosed EXCEPT ![c] = TRUE]
            /\ dbuf' = [dbuf EXCEPT ![c] = <<>>]
            /\ c2s' = [c2s EXCEPT ![c] = <<>>]
            /\ rpc' = [rpc EXCEPT ![c] = "done"]
            /\ UNCHANGED <<pending, evR>>
       ELSE /\ pending' = [pending EXCEPT ![meta[c].id] = c]
            /\ evR' = [evR EXCEPT ![c] =
                          Append(@, Event("incoming_request", meta[c].id, NoTransfer))]
            /\ rpc' = [rpc EXCEPT ![c] = "wait"]
            /\ UNCHANGED <<sClosed, dbuf, c2s>>
    /\ UNCHANGED <<cpc, ckind, src, sent, sErr, st, sTable, evS, frame, s2c,
                   cClosed, meta, accepted, timedOut, chan, rt, rTable, file,
                   ioErr, history>>
    /\ UNCHANGED callVars
    /\ UNCHANGED <<fsVars, discVars, codecVars>>

\* select: case accepted = <-pt.Response
handleIncomingDecision(c) ==
    /\ rpc[c] = "wait"
    /\ chan[c] # <<>>
    /\ accepted' = [accepted EXCEPT ![c] = Head(chan[c])]
    /\ chan' = [chan EXCEPT ![c] = Tail(@)]
    /\ rpc' = [rpc EXCEPT ![c] = "respond"]
    /\ UNCHANGED <<cpc, ckind, src, sent, sErr, st, sTable, evS, frame, c2s, s2c,
                   cClosed, sClosed, meta, dbuf, timedOut, pending, rt, rTable,
                   file, ioErr, history, evR>>
    /\ UNCHANGED callVars
    /\ UNCHANGED <<fsVars, discVars, codecVars>>

\* a timeout branch that lets the transfer through
TimeoutDecisionAccept == TRUE

\* the value the time.After branch of the select assigns: accepted = false
TimeoutDecision == FALSE

\* select: case <-time.After(2 * time.Minute): accepted = false
handleIncomingTimeout(c) ==
    /\ rpc[c] = "wait"
    /\ accepted' = [accepted EXCEPT ![c] = TimeoutDecision]
    /\ timedOut' = [timedOut EXCEPT ![c] = TRUE]
    /\ rpc' = [rpc EXCEPT ![c] = "respond"]
    /\ UNCHANGED <<cpc, ckind, src, sent, sErr, st, sTable, evS, frame, c2s, s2c,
                   cClosed, sClosed, meta, dbuf, pending, chan, rt, rTable,
                   file, ioErr, history, evR>>
    /\ UNCHANGED callVars
    /\ UNCHANGED <<fsVars, discVars, codecVars>>

\* a worker that looks at the decision signal again when it answers
ResponseAcceptReread(c) == IF chan[c] # <<>> THEN Head(chan[c]) ELSE accepted[c]

\* resp := wireResponse{Accept: accepted}
ResponseAccept(c) == accepted[c]

\* a worker that may answer while it still waits for the decision
RespondsEarly(c) == rpc[c] \in {"wait", "respond"}

\* the Encode of the response is the statement after the select
RespondsAt(c) == rpc[c] = "respond"

\* json.NewEncoder(conn).Encode(resp); the error of a write to a connection
\* the client already closed is ignored
handleIncomingRespond(c) ==
    /\ RespondsAt(c)
    /\ s2c' = [s2c EXCEPT ![c] = IF cClosed[c] THEN @ ELSE Append(@, ResponseAccept(c))]
    /\ respCount' = [respCount EXCEPT ![c] = @ + 1]
    /\ rpc' = [rpc EXCEPT ![c] = "delete"]
    /\ UNCHANGED <<cpc, ckind, src, sent, sErr, st, sTable, evS, frame, c2s,
                   cClosed, sClosed, meta, dbuf, accepted, timedOut, pending, chan,
                   rt, rTable, file, ioErr, history, evR>>
    /\ UNCHANGED callVars
    /\ UNCHANGED <<fsVars, discVars, frameVars, pathVars, lockVars, dialed>>

\* a worker that tells the UI of explicit rejections only
RejectedEventsExplicitOnly(c) ==
    IF timedOut[c] THEN <<>>
    ELSE <<Event("transfer_rejected", meta[c].id, NoTransfer)>>

\* s.broadcast("transfer_rejected", {"id": meta.ID, "fileName": meta.FileName})
RejectedEvents(c) == <<Event("transfer_rejected", meta[c].id, NoTransfer)>>

\* a worker that clears the table after an accepted transfer only
PendingAfterDeleteIfAccepted(c) ==
    IF accepted[c] THEN [pending EXCEPT ![meta[c].id] = 0] ELSE pending

\* s.mu.Lock(); delete(s.pending, meta.ID); s.mu.Unlock()
PendingAfterDelete(c) == [pending EXCEPT ![meta[c].id] = 0]

\* a worker that receives the file whatever the decision was
GoesOnToReceiveAlways(c) == TRUE

\* if !accepted { ...; return }: only an accepted worker reaches receiveFile
GoesOnToReceive(c) == accepted[c]

\* delete(s.pending, meta.ID); then, if not accepted, conn.Close() and
\* broadcast("transfer_rejected"); if accepted, go on to receiveFile
handleIncomingDelete(c) ==
    /\ rpc[c] = "delete"
    /\ pending' = PendingAfterDelete(c)
    /\ IF GoesOnToReceive(c)
       THEN /\ rpc' = [rpc EXCEPT ![c] = "skip"]
            /\ UNCHANGED <<sClosed, evR, dbuf, c2s>>
       ELSE /\ sClosed' = [sClosed EXCEPT ![c] = TRUE]
            /\ dbuf' = [dbuf EXCEPT ![c] = <<>>]
            /\ c2s' = [c2s EXCEPT ![c] = <<>>]
            /\ evR' = [evR EXCEPT ![c] = @ \o RejectedEvents(c)]
            /\ rpc' = [rpc EXCEPT ![c] = "done"]
    /\ UNCHANGED <<cpc, ckind, src, sent, sErr, st, sTable, evS, frame, s2c,
                   cClosed, meta, accepted, timedOut, chan, rt, rTable, file,
                   ioErr, history>>
    /\ UNCHANGED callVars
    /\ UNCHANGED <<fsVars, discVars, codecVars>>

\* ===== receive path: receiveFile(conn, combinedReader, meta) =====

\* io.MultiReader(decoder.Buffered(), reader): the decoder's buffered bytes,
\* then the rest of the connection
CombinedReader(c) == dbuf[c] \o c2s[c]

\* the skip loop: Peek(1) shows a delimiter byte, ReadByte drops it
receiveFileSkip(c) ==
    /\ rpc[c] = "skip"
    /\ CombinedReader(c) # <<>>
    /\ IsSpace(Head(CombinedReader(c)))
    /\ dbuf' = [dbuf EXCEPT ![c] = <<>>]
    /\ c2s' = [c2s EXCEPT ![c] = Tail(CombinedReader(c))]
    /\ UNCHANGED <<cpc, ckind, src, sent, sErr, st, sTable, evS, frame, s2c,
                   cClosed, sClosed, rpc, meta, accepted, timedOut, pending, chan,
                   rt, rTable, file, ioErr, history, evR>>
    /\ UNCHANGED callVars
    /\ UNCHANGED <<fsVars, discVars, codecVars>>

\* filepath.Join(s.config.DownloadDir, meta.FileName)
PlainPath(c) == <<meta[c].fileName>>

\* _, err := os.Stat(path); err == nil. Join(DownloadDir, "") is the download
\* directory itself, which exists.
Exists(path) == path \in disk \/ path = <<"">>

\* fmt.Sprintf("%s_%d%s", base, time.Now().UnixMilli(), ext)
StampedPath(c, ms) == <<meta[c].fileName, ms>>

\* the skip loop ends (a payload byte, or Peek fails at end of stream); then
\* os.Stat(savePath): if the path exists, savePath gets the clock's reading
receiveFileStat(c) ==
    /\ rpc[c] = "skip"
    /\ \/ CombinedReader(c) # <<>> /\ ~IsSpace(Head(CombinedReader(c)))
       \/ CombinedReader(c) = <<>> /\ cClosed[c]
    /\ IF Exists(PlainPath(c))
       THEN \E ms \in Millis : savePath' = [savePath EXCEPT ![c] = StampedPath(c, ms)]
       ELSE savePath' = [savePath EXCEPT ![c] = PlainPath(c)]
    /\ rpc' = [rpc EXCEPT ![c] = "create"]
    /\ UNCHANGED <<cpc, ckind, src, sent, sErr, st, sTable, evS, frame, c2s, s2c,
                   cClosed, sClosed, meta, dbuf, accepted, timedOut, pending, chan,
                   rt, rTable, file, ioErr, history, evR, disk>>
    /\ UNCHANGED callVars
    /\ UNCHANGED <<discVars, codecVars>>

\* a receiveFile without the deferred close
DeferredCloseForgotten(c) == sClosed

\* defer conn.Close(): runs at every return of receiveFile
DeferredClose(c) == [sClosed EXCEPT ![c] = TRUE]

\* os.Create(savePath) creates the path or truncates the file that is there; on
\* success the Transfer in status receiving is stored and broadcast
receiveFileCreate(c) ==
    /\ rpc[c] = "create"
    /\ \E ok \in BOOLEAN :
          IF ok
          THEN LET t == [NoTransfer EXCEPT !.id = meta[c].id,
                                           !.fileSize = meta[c].fileSize,
                                           !.status = "receiving",
                                           !.direction = "receive"] IN
               /\ disk' = disk \cup {savePath[c]}
               /\ file' = [file EXCEPT ![c] = <<>>]
               /\ rt' = [rt EXCEPT ![c] = t]
               /\ rTable' = [rTable EXCEPT ![t.id] = c]
               /\ evR' = [evR EXCEPT ![c] = Append(@, Event("transfer_update", t.id, t))]
               /\ rpc' = [rpc EXCEPT ![c] = "stream"]
               /\ UNCHANGED <<sClosed, ioErr, dbuf, c2s>>
          ELSE /\ sClosed' = DeferredClose(c)
               /\ dbuf' = [dbuf EXCEPT ![c] = <<>>]
               /\ c2s' = [c2s EXCEPT ![c] = <<>>]
               /\ ioErr' = [ioErr EXCEPT ![c] = TRUE]
               /\ rpc' = [rpc EXCEPT ![c] = "done"]
               /\ UNCHANGED <<file, rt, rTable, evR, disk>>
    /\ UNCHANGED <<cpc, ckind, src, sent, sErr, st, sTable, evS, frame, s2c,
                   cClosed, meta, accepted, timedOut, pending, chan, history,
                   savePath>>
    /\ UNCHANGED callVars
    /\ UNCHANGED <<discVars, codecVars>>

\* one pass of the streaming loop with n > 0: file.Write(buf[:n]), whose
\* results are not looked at: when the write fails (wrote = FALSE: the disk is
\* full) the bytes are not in the file and the loop goes on as after a good
\* write
receiveFileChunk(c, wrote) ==
    /\ rpc[c] = "stream"
    /\ CombinedReader(c) # <<>>
    /\ \E n \in 1..Min(ChunkSize, Len(CombinedReader(c))), tick \in BOOLEAN :
          LET t == AddBytes(rt[c], n) IN
          /\ file' = [file EXCEPT ![c] = IF wrote THEN @ \o Take(CombinedReader(c), n)
                                         ELSE @]
          /\ ioErr' = [ioErr EXCEPT ![c] = @ \/ ~wrote]
          /\ dbuf' = [dbuf EXCEPT ![c] = <<>>]
          /\ c2s' = [c2s EXCEPT ![c] = Drop(CombinedReader(c), n)]
          /\ rt' = [rt EXCEPT ![c] = t]
          /\ evR' = [evR EXCEPT ![c] = Tick(@, tick, t)]
    /\ UNCHANGED <<cpc, ckind, src, sent, sErr, st, sTable, evS, frame, s2c,
                   cClosed, sClosed, rpc, meta, accepted, timedOut, pending, chan,
                   rTable, history>>
    /\ UNCHANGED callVars
    /\ UNCHANGED <<fsVars, discVars, codecVars>>

\* a pass whose write reached the file
receiveFileRead(c) == receiveFileChunk(c, TRUE)

\* a pass whose write failed
receiveFileReadWriteFails(c) == receiveFileChunk(c, FALSE)

\* Read failed with an error other than io.EOF: failed, broadcast, AddHistory
receiveFileReadError(c) ==
    /\ rpc[c] = "stream"
    /\ LET t == [rt[c] EXCEPT !.status = "failed"] IN
       /\ rt' = [rt EXCEPT ![c] = t]
       /\ evR' = [evR EXCEPT ![c] = Append(@, Event("transfer_update", t.id, t))]
       /\ history' = AddHistory(history, RecvIdentity, t.id, "receive", "failed")
    /\ ioErr' = [ioErr EXCEPT ![c] = TRUE]
    /\ sClosed' = DeferredClose(c)
    /\ dbuf' = [dbuf EXCEPT ![c] = <<>>]
    /\ c2s' = [c2s EXCEPT ![c] = <<>>]
    /\ rpc' = [rpc EXCEPT ![c] = "done"]
    /\ UNCHANGED <<cpc, ckind, src, sent, sErr, st, sTable, evS, frame, s2c,
                   cClosed, meta, accepted, timedOut, pending, chan, rTable,
                   file>>
    /\ UNCHANGED callVars
    /\ UNCHANGED <<fsVars, discVars, codecVars>>

\* Read returned io.EOF: leave the loop; t.Status = "completed"
receiveFileCompleted(c) ==
    /\ rpc[c] = "stream"
    /\ CombinedReader(c) = <<>>
    /\ cClosed[c]
    /\ rt' = [rt EXCEPT ![c].status = "completed"]
    /\ rpc' = [rpc EXCEPT ![c] = "finish"]
    /\ UNCHANGED <<cpc, ckind, src, sent, sErr, st, sTable, evS, frame, c2s, s2c,
                   cClosed, sClosed, meta, dbuf, accepted, timedOut, pending, chan,
                   rTable, file, ioErr, history, evR>>
    /\ UNCHANGED callVars
    /\ UNCHANGED <<fsVars, discVars, codecVars>>

\* t.Progress = 100, the final broadcast, AddHistory, return (conn.Close)
receiveFileFinish(c) ==
    /\ rpc[c] = "finish"
    /\ LET t == [rt[c] EXCEPT !.progress = P100] IN
       /\ rt' = [rt EXCEPT ![c] = t]
       /\ evR' = [evR EXCEPT ![c] = Append(@, Event("transfer_update", t.id, t))]
       /\ history' = AddHistory(history, RecvIdentity, t.id, "receive", "completed")
    /\ sClosed' = DeferredClose(c)
    /\ rpc' = [rpc EXCEPT ![c] = "done"]
    /\ UNCHANGED <<cpc, ckind, src, sent, sErr, st, sTable, evS, frame, c2s, s2c,
                   cClosed, meta, dbuf, accepted, timedOut, pending, chan, rTable,
                   file, ioErr>>
    /\ UNCHANGED callVars
    /\ UNCHANGED <<fsVars, discVars, codecVars>>

\* ===== decision API =====

callRest == <<cpc, ckind, src, sent, sErr, st, sTable, evS, frame, c2s, s2c,
              cClosed, sClosed, rpc, meta, dbuf, accepted, timedOut, pending, rt,
              rTable, file, ioErr, history, evR>>

\* a lookup that reads the table under another key than the id it was given
LookupOtherKey(i) == pending[CHOOSE j \in Ids : j # i]

\* pt, ok := s.pending[id]: the worker whose PendingTransfer is stored, 0 = !ok
LookupPending(i) == pending[i]

\* pt, ok := s.pending[id] under RLock; if !ok return "no pending transfer"
DecisionLookup(k, val) ==
    /\ callPc[k] = "idle"
    /\ \A j \in Calls : j < k => callPc[j] # "idle"   \* calls are numbered as they start
    /\ \E i \in Ids :
          /\ IF LookupPending(i) = 0
             THEN /\ callRes' = [callRes EXCEPT ![k] = "notfound"]
                  /\ callPc' = [callPc EXCEPT ![k] = "done"]
                  /\ UNCHANGED <<callPt, callId, callVal>>
             ELSE /\ callPt' = [callPt EXCEPT ![k] = LookupPending(i)]
                  /\ callId' = [callId EXCEPT ![k] = i]
                  /\ callVal' = [callVal EXCEPT ![k] = val]
                  /\ callPc' = [callPc EXCEPT ![k] = "send"]
                  /\ UNCHANGED callRes
    /\ UNCHANGED chan
    /\ UNCHANGED callRest
    /\ UNCHANGED <<fsVars, discVars, codecVars>>

\* pt.Response <- val on the channel of capacity 1; return nil
DecisionSend(k) ==
    /\ callPc[k] = "send"
    /\ Len(chan[callPt[k]]) < 1
    /\ chan' = [chan EXCEPT ![callPt[k]] = Append(@, callVal[k])]
    /\ callRes' = [callRes EXCEPT ![k] = "ok"]
    /\ callPc' = [callPc EXCEPT ![k] = "done"]
    /\ callId' = [callId EXCEPT ![k] = ""]           \* the call's frame is gone
    /\ callVal' = [callVal EXCEPT ![k] = FALSE]
    /\ callPt' = [callPt EXCEPT ![k] = 0]
    /\ UNCHANGED callRest
    /\ UNCHANGED <<fsVars, discVars, codecVars>>

AcceptTransfer(k) == DecisionLookup(k, TRUE)
RejectTransfer(k) == DecisionLookup(k, FALSE)

\* the steps of the receive worker of connection c
Worker(c) ==
    \/ handleIncomingDecode(c)
    \/ handleIncomingRegister(c)
    \/ handleIncomingDecision(c)
    \/ handleIncomingTimeout(c)
    \/ handleIncomingRespond(c)
    \/ handleIncomingDelete(c)
    \/ receiveFileSkip(c)
    \/ receiveFileStat(c)
    \/ receiveFileCreate(c)
    \/ receiveFileRead(c)
    \/ receiveFileReadError(c)
    \/ receiveFileCompleted(c)
    \/ receiveFileFinish(c)

\* the steps of the UI's decision calls
Decide ==
    \/ \E k \in Calls : AcceptTransfer(k)
    \/ \E k \in Calls : RejectTransfer(k)
    \/ \E k \in Calls : DecisionSend(k)

\* the decision calls made while several connections compete for an id
DecidePending ==
    \/ \E k \in PendingCalls : AcceptTransfer(k)
    \/ \E k \in PendingCalls : RejectTransfer(k)
    \/ \E k \in PendingCalls : DecisionSend(k)

\* One transfer end to end: a payload-carrying client (SendStream or the raw
\* test client) on one connection, its receive worker, and the decision calls.
Next ==
    \/ RawClient(1)
    \/ SendStreamStart(1)
    \/ SendStreamFail(1)
    \/ SendStreamResponse(1)
    \/ SendStreamNoResponse(1)
    \/ SendStreamChunk(1)
    \/ SendStreamCompleted(1)
    \/ SendStreamFinish(1)
    \/ Worker(1)
    \/ Decide

Spec == Init /\ [][Next]_vars

\* SendStream of an empty file: fileSize 0 and a reader at end of stream
SendStreamStartEmpty(c) ==
    /\ SendStreamStart(c)
    /\ src'[c] = <<>>
    /\ frame'[c].fileSize = 0

\* The decision on one inbound request: SendStream of an empty file, the
\* receive worker of its connection, and the UI's decision calls.
NextDecide ==
    \/ SendStreamStartEmpty(1)
    \/ SendStreamResponse(1)
    \/ SendStreamNoResponse(1)
    \/ SendStreamCompleted(1)
    \/ SendStreamFinish(1)
    \/ handleIncomingDecode(1)
    \/ handleIncomingRegister(1)
    \/ handleIncomingDecision(1)
    \/ handleIncomingTimeout(1)
    \/ handleIncomingRespond(1)
    \/ handleIncomingDelete(1)
    \/ receiveFileSkip(1)
    \/ receiveFileStat(1)
    \/ receiveFileCreate(1)
    \/ receiveFileReadError(1)
    \/ receiveFileCompleted(1)
    \/ receiveFileFinish(1)
    \/ Decide

SpecDecide == Init /\ [][NextDecide]_vars

\* How a connection opens: the raw client's frames, well-formed or not, a
\* SendStream that fails before or while it writes its metadata, the receive
\* worker, and the UI's decision calls.
NextOpen ==
    \/ RawClient(1)
    \/ SendStreamFail(1)
    \/ Worker(1)
    \/ DecidePending

SpecOpen == Init /\ [][NextOpen]_vars

\* SendStream's wait for the response frame: Decode returns with a frame, or
\* with an error when the read deadline set before it expires
SendStreamWait(c) == SendStreamResponse(c) \/ SendStreamNoResponse(c)

\* One SendStream transfer with its goroutines scheduled: the receive worker
\* of the connection keeps taking steps (its select returns after 2 minutes at
\* the latest, none of its other statements waits on anyone), and the Decode
\* of SendStream returns (the read deadline bounds it). Nothing is assumed of
\* the UI's decision calls or of the sender's other steps.
NextStream ==
    \/ SendStreamStart(1)
    \/ SendStreamResponse(1)
    \/ SendStreamNoResponse(1)
    \/ SendStreamChunk(1)
    \/ SendStreamCompleted(1)
    \/ SendStreamFinish(1)
    \/ Worker(1)
    \/ DecidePending

SpecStream == Init /\ [][NextStream]_vars

SpecFair ==
    /\ Init /\ [][NextStream]_vars
    /\ WF_vars(Worker(1))
    /\ WF_vars(SendStreamWait(1))

\* The same with nothing assumed of the receiving peer: its worker may stall
\* at any point; only the Decode of SendStream is known to return.
SpecDeadline ==
    /\ Init /\ [][NextStream]_vars
    /\ WF_vars(SendStreamWait(1))

\* Concurrent inbound connections that may present the same id (the clients
\* of TestDeduplication), their receive workers, and the decision calls.
NextPending ==
    \/ \E c \in Conns : DedupClient(c)
    \/ \E c \in Conns : handleIncomingDecode(c)
    \/ \E c \in Conns : handleIncomingRegister(c)
    \/ \E c \in Conns : handleIncomingDecision(c)
    \/ \E c \in Conns : handleIncomingTimeout(c)
    \/ \E c \in Conns : handleIncomingRespond(c)
    \/ \E c \in Conns : handleIncomingDelete(c)
    \/ \E c \in Conns : receiveFileSkip(c)
    \/ \E c \in Conns : receiveFileStat(c)
    \/ \E c \in Conns : receiveFileCreate(c)
    \/ \E c \in Conns : receiveFileReadError(c)
    \/ \E c \in Conns : receiveFileCompleted(c)
    \/ \E c \in Conns : receiveFileFinish(c)
    \/ DecidePending

SpecPending == Init /\ [][NextPending]_vars

\* AcceptTransfer(id) run without interruption between its lookup and its
\* send, for an id that is pending and whose signal has room
AcceptTransferCall ==
    /\ \E i \in Ids :
          /\ LookupPending(i) # 0
          /\ Len(chan[LookupPending(i)]) < 1
          /\ chan' = [chan EXCEPT ![LookupPending(i)] = Append(@, TRUE)]
    /\ UNCHANGED callRest
    /\ UNCHANGED callVars
    /\ UNCHANGED <<fsVars, discVars, codecVars>>

\* Concurrent receives into the download directory: connections that carry
\* file names, their receive workers, and the operator accepting them.
NextFiles ==
    \/ \E c \in Conns : NamedClient(c)
    \/ \E c \in Conns : handleIncomingDecode(c)
    \/ \E c \in Conns : handleIncomingRegister(c)
    \/ \E c \in Conns : handleIncomingDecision(c)
    \/ \E c \in Conns : handleIncomingTimeout(c)
    \/ \E c \in Conns : handleIncomingRespond(c)
    \/ \E c \in Conns : handleIncomingDelete(c)
    \/ \E c \in Conns : receiveFileSkip(c)
    \/ \E c \in Conns : receiveFileStat(c)
    \/ \E c \in Conns : receiveFileCreate(c)
    \/ \E c \in Conns : receiveFileReadError(c)
    \/ \E c \in Conns : receiveFileCompleted(c)
    \/ \E c \in Conns : receiveFileFinish(c)
    \/ AcceptTransferCall

SpecFiles == Init /\ [][NextFiles]_vars

\* A receive onto a disk whose writes may fail: the raw client's payload, the
\* receive worker, and the operator accepting. (In the other specifications
\* the disk takes every write.)
NextDisk ==
    \/ RawClient(1)
    \/ Worker(1)
    \/ receiveFileReadWriteFails(1)
    \/ AcceptTransferCall

SpecDisk == Init /\ [][NextDisk]_vars

\* the worker of connection d is past the decision: in receiveFile, or done
PastDecision(d) == rpc[d] \in {"skip", "create", "stream", "finish", "done"}

\* A peer that sends one file and, once its connection has had its decision,
\* sends it again under the same transfer id (a retry): the metadata frame,
\* the payload, close. Connections are numbered as they arrive.
RetryPayload == <<"a">>

RetryClient(c) ==
    /\ cpc[c] = "idle"
    /\ \A d \in Conns : d < c => cpc[d] # "idle" /\ PastDecision(d)
    /\ frame' = [frame EXCEPT ![c] =
                    [kind |-> "meta", id |-> PrimaryId, fileSize |-> Len(RetryPayload),
                     fileName |-> PrimaryName]]
    /\ c2s' = [c2s EXCEPT ![c] = <<NL>> \o RetryPayload]
    /\ sent' = [sent EXCEPT ![c] = RetryPayload]
    /\ cpc' = [cpc EXCEPT ![c] = "done"]
    /\ ckind' = [ckind EXCEPT ![c] = "retry"]
    /\ cClosed' = [cClosed EXCEPT ![c] = TRUE]
    /\ UNCHANGED <<src, sErr, st, sTable, evS, s2c, sClosed, pending, chan,
                   ioErr, history>>
    /\ UNCHANGED workerVars
    /\ UNCHANGED callVars
    /\ UNCHANGED <<fsVars, discVars, codecVars>>

\* The retrying peer's connections, their receive workers, and the operator
\* accepting.
NextReuse ==
    \/ \E c \in Conns : RetryClient(c)
    \/ \E c \in Conns : Worker(c)
    \/ AcceptTransferCall

SpecReuse == Init /\ [][NextReuse]_vars

\* ===== presence discovery (package discovery) =====

\* the user signs in: the api server's currentUser is set, getUsername() is
\* the user's email from then on
SignIn(d) ==
    /\ proc[d] = "up"
    /\ ~session[d]
    /\ identity' = [identity EXCEPT ![d] = UserOf[d]]
    /\ session' = [session EXCEPT ![d] = TRUE]
    /\ UNCHANGED <<now, dgrams, devices, advertiser, lastTick, listener, tcpListener, proc>>
    /\ UNCHANGED <<xferVars, codecVars>>

\* handleLogout: the session is deleted and the cookie expired; s.currentUser
\* is not assigned
Logout(d) ==
    /\ proc[d] = "up"
    /\ session[d]
    /\ session' = [session EXCEPT ![d] = FALSE]
    /\ UNCHANGED <<now, identity, dgrams, devices, advertiser, lastTick, listener,
                   tcpListener, proc>>
    /\ UNCHANGED <<xferVars, codecVars>>

\* time passes
ClockTick ==
    /\ now < MaxClock
    /\ now' = now + 1
    /\ UNCHANGED <<identity, dgrams, devices, advertiser, lastTick, listener,
                   tcpListener, proc>>
    /\ UNCHANGED <<session, xferVars, codecVars>>

\* broadcastPresence before its loop: ResolveUDPAddr fails -> log.Fatal;
\* DialUDP fails -> log.Println and return; else the loop starts
broadcastPresenceStart(d) ==
    /\ proc[d] = "up"
    /\ advertiser[d] = "start"
    /\ \E outcome \in {"resolve fails", "dial fails", "ok"} :
          /\ proc' = [proc EXCEPT ![d] = IF outcome = "resolve fails" THEN "aborted" ELSE @]
          /\ advertiser' = [advertiser EXCEPT ![d] =
                               IF outcome = "ok" THEN "running" ELSE "absent"]
    /\ UNCHANGED <<now, identity, dgrams, devices, lastTick, listener, tcpListener>>
    /\ UNCHANGED <<session, xferVars, codecVars>>

\* an advertiser that announces the device whoever is or is not signed in
ShouldAdvertiseAlways(username) == TRUE

\* if username != ""
ShouldAdvertise(username) == username # ""

\* one pass of the advertiser's loop: username := s.getUsername(); if it is
\* non-empty, Marshal and conn.Write (an error is logged); time.Sleep
broadcastPresenceTick(d) ==
    /\ proc[d] = "up"
    /\ advertiser[d] = "running"
    /\ LET username == identity[d] IN
       IF ShouldAdvertise(username)
       THEN /\ lastTick' = [lastTick EXCEPT ![d] = "wrote"]
            /\ \E delivered \in BOOLEAN :
                  dgrams' = IF delivered
                            THEN dgrams \cup {[id |-> d, username |-> username]}
                            ELSE dgrams
       ELSE /\ lastTick' = [lastTick EXCEPT ![d] = "skipped"]
            /\ UNCHANGED dgrams
    /\ UNCHANGED <<now, identity, devices, advertiser, listener, tcpListener, proc>>
    /\ UNCHANGED <<session, xferVars, codecVars>>

\* a datagram leaves the network
DatagramLost ==
    /\ \E dg \in dgrams : dgrams' = dgrams \ {dg}
    /\ UNCHANGED <<now, identity, devices, advertiser, lastTick, listener, tcpListener, proc>>
    /\ UNCHANGED <<session, xferVars, codecVars>>

\* listenDiscovery before its loop: ResolveUDPAddr fails -> log.Fatal;
\* ListenMulticastUDP fails -> log.Println and return; else the loop starts
listenDiscoveryStart ==
    /\ proc[Local] = "up"
    /\ listener = "start"
    /\ \E outcome \in {"resolve fails", "listen fails", "ok"} :
          /\ proc' = [proc EXCEPT ![Local] =
                         IF outcome = "resolve fails" THEN "aborted" ELSE @]
          /\ listener' = IF outcome = "ok" THEN "listening" ELSE "absent"
    /\ UNCHANGED <<now, identity, dgrams, devices, advertiser, lastTick, tcpListener>>
    /\ UNCHANGED <<session, xferVars, codecVars>>

\* a listener that takes in its own advertisements
DiscardedIfNoId(dg) == dg.id = ""

\* if id == "" { continue }; if id == s.deviceID { continue }
Discarded(dg) == dg.id = "" \/ dg.id = Local

\* one pass of the listener's loop: ReadFromUDP, Unmarshal (a read error and
\* bytes that are no JSON object end the pass like a datagram with no id);
\* a datagram with no id or with the own id is skipped, else
\* s.devices[id] = &Device{..., LastSeen: time.Now()}
listenDiscoveryRead ==
    /\ proc[Local] = "up"
    /\ listener = "listening"
    /\ \E dg \in dgrams \cup {JunkDatagram} :
          IF Discarded(dg)
          THEN UNCHANGED devices
          ELSE devices' = [devices EXCEPT ![dg.id] =
                              [seen |-> TRUE, username |-> dg.username, lastSeen |-> now]]
    /\ UNCHANGED <<now, identity, dgrams, advertiser, lastTick, listener, tcpListener, proc>>
    /\ UNCHANGED <<session, xferVars, codecVars>>

\* listenTCP before its loop: net.Listen fails -> log.Fatal
listenTCPStart ==
    /\ proc[Local] = "up"
    /\ tcpListener = "start"
    /\ \E ok \in BOOLEAN :
          /\ proc' = [proc EXCEPT ![Local] = IF ok THEN @ ELSE "aborted"]
          /\ tcpListener' = IF ok THEN "listening" ELSE "start"
    /\ UNCHANGED <<now, identity, dgrams, devices, advertiser, lastTick, listener>>
    /\ UNCHANGED <<session, xferVars, codecVars>>

\* a registry that never filters by age
GetDevicesAll == {d \in RegistryKeys : devices[d].seen}

\* GetDevices: the devices with time.Since(d.LastSeen) < 10*time.Second
GetDevices == {d \in RegistryKeys : devices[d].seen /\ now - devices[d].lastSeen < LivenessWindow}

\* GetDevice: d, ok := s.devices[id]
GetDevice(id) == [device |-> devices[id], ok |-> devices[id].seen]

\* The discovery services of the devices on the group and the start-up of
\* the local process's background services.
NextDiscovery ==
    \/ \E d \in DeviceIds : SignIn(d)
    \/ \E d \in DeviceIds : Logout(d)
    \/ ClockTick
    \/ \E d \in DeviceIds : broadcastPresenceStart(d)
    \/ \E d \in DeviceIds : broadcastPresenceTick(d)
    \/ DatagramLost
    \/ listenDiscoveryStart
    \/ listenDiscoveryRead
    \/ listenTCPStart

SpecDiscovery == Init /\ [][NextDiscovery]_vars

\* ===== wire codec: json.Encoder.Encode / json.Decoder.Decode of wireMetadata =====

\* the bytes the encoder writes for one character of a string
EncodeChar(ch) ==
    CASE ch = "\"" -> <<"\\", "\"">>
      [] ch = "<" -> <<"\\", "u", "0", "0", "3", "c">>
      [] ch = InvalidByte -> <<"\\", "u", "f", "f", "f", "d">>
      [] OTHER -> <<ch>>

RECURSIVE EscapeString(_)
EscapeString(str) ==
    IF str = <<>> THEN <<>> ELSE EncodeChar(Head(str)) \o EscapeString(Tail(str))

\* a string value on the wire: quote, escaped characters, quote
EncodeString(str) == <<"\"">> \o EscapeString(str) \o <<"\"">>

\* the character a \uXXXX escape stands for
HexChar(hex) ==
    CASE hex = <<"0", "0", "3", "c">> -> "<"
      [] hex = <<"f", "f", "f", "d">> -> ReplacementChar
      [] OTHER -> ReplacementChar

RECURSIVE Unescape(_)
Unescape(w) ==
    IF w = <<>> THEN <<>>
    ELSE IF Head(w) = "\\"
         THEN IF w[2] = "u"
              THEN <<HexChar(SubSeq(w, 3, 6))>> \o Unescape(SubSeq(w, 7, Len(w)))
              ELSE <<w[2]>> \o Unescape(SubSeq(w, 3, Len(w)))
         ELSE <<Head(w)>> \o Unescape(Tail(w))

\* the decoder's reading of a string value: drop the quotes, undo the escapes
DecodeString(w) == Unescape(SubSeq(w, 2, Len(w) - 1))

Digits == <<"0", "1", "2", "3", "4", "5", "6", "7", "8", "9">>

\* an int64 on the wire: its decimal digits
RECURSIVE FormatInt(_)
FormatInt(n) ==
    IF n < 10 THEN <<Digits[n + 1]>> ELSE FormatInt(n \div 10) \o <<Digits[(n % 10) + 1]>>

DigitValue(ch) == (CHOOSE k \in DOMAIN Digits : Digits[k] = ch) - 1

RECURSIVE ParseInt(_)
ParseInt(w) ==
    IF Len(w) = 1 THEN DigitValue(w[1])
    ELSE ParseInt(SubSeq(w, 1, Len(w) - 1)) * 10 + DigitValue(w[Len(w)])

\* json.NewEncoder(conn).Encode(meta): the five fields and the newline
Encode(m) == [id |-> EncodeString(m.id), fileName |-> EncodeString(m.fileName),
              fileSize |-> FormatInt(m.fileSize),
              senderId |-> EncodeString(m.senderId),
              senderName |-> EncodeString(m.senderName), delimiter |-> NL]

\* decoder.Decode(&meta)
Decode(w) == [id |-> DecodeString(w.id), fileName |-> DecodeString(w.fileName),
              fileSize |-> ParseInt(w.fileSize),
              senderId |-> DecodeString(w.senderId),
              senderName |-> DecodeString(w.senderName)]

\* SendStream fills the frame: a uuid, the caller's fileName and fileSize, the
\* device id, getUsername()
CodecPick ==
    /\ codecPc = "idle"
    /\ \E i \in PlainStrings, f \in Strings, n \in CodecSizes, u \in Strings :
          mIn' = [id |-> i, fileName |-> f, fileSize |-> n, senderId |-> <<"a">>,
                  senderName |-> u]
    /\ codecPc' = "picked"
    /\ UNCHANGED <<wire, mOut>>
    /\ UNCHANGED <<xferVars, discVars, pathVars, restVars>>

CodecEncode ==
    /\ codecPc = "picked"
    /\ wire' = Encode(mIn)
    /\ codecPc' = "encoded"
    /\ UNCHANGED <<mIn, mOut>>
    /\ UNCHANGED <<xferVars, discVars, pathVars, restVars>>

CodecDecode ==
    /\ codecPc = "encoded"
    /\ mOut' = Decode(wire)
    /\ codecPc' = "decoded"
    /\ UNCHANGED <<mIn, wire>>
    /\ UNCHANGED <<xferVars, discVars, pathVars, restVars>>

\* One metadata frame through the encoder and the decoder.
NextCodec ==
    \/ CodecPick
    \/ CodecEncode
    \/ CodecDecode

SpecCodec == Init /\ [][NextCodec]_vars

\* ===== save path: filepath.Join(s.config.DownloadDir, meta.FileName) =====

\* filepath.Clean of a rooted path, element by element: "" and "." are
\* dropped, ".." removes the element before it (at the root, nothing)
RECURSIVE CleanFrom(_, _)
CleanFrom(done, rest) ==
    IF rest = <<>> THEN done
    ELSE LET e == Head(rest) IN
         IF e.ms = 0 /\ e.name \in {"", "."} THEN CleanFrom(done, Tail(rest))
         ELSE IF e.ms = 0 /\ e.name = ".."
              THEN CleanFrom(IF done = <<>> THEN done ELSE Take(done, Len(done) - 1),
                             Tail(rest))
              ELSE CleanFrom(Append(done, e), Tail(rest))

Clean(path) == CleanFrom(<<>>, path)

\* filepath.Join(dir, name) == Clean(dir + "/" + name)
Join(dir, name) == Clean(dir \o name)

\* fmt.Sprintf("%s_%d%s", base, time.Now().UnixMilli(), ext): the text goes
\* into the last element of the name, which is an ordinary name from then on
Stamp(name, ms) ==
    IF name = <<>> THEN <<[name |-> "", ms |-> ms]>>
    ELSE [name EXCEPT ![Len(name)] = [name |-> @.name, ms |-> ms]]

\* the directories that exist: the download directory (os.MkdirAll at start-up)
\* and the ones above it
Dirs == {Take(DownloadDir, n) : n \in 0..Len(DownloadDir)}

\* a path strictly below the download directory
Inside(path) ==
    /\ Len(path) > Len(DownloadDir)
    /\ Take(path, Len(DownloadDir)) = DownloadDir

\* a metadata frame arrives with some fileName
PathPick ==
    /\ pathPc = "idle"
    /\ \E name \in WireNames : wireName' = name
    /\ pathPc' = "picked"
    /\ UNCHANGED <<joined, created>>
    /\ UNCHANGED <<xferVars, discVars, frameVars, restVars>>

\* savePath := Join(DownloadDir, meta.FileName); if os.Stat finds it, Join of
\* the stamped name. A directory is found for sure, a file may be there.
PathResolve ==
    /\ pathPc = "picked"
    /\ \E exists \in BOOLEAN, ms \in Millis :
          /\ Join(DownloadDir, wireName) \in Dirs => exists
          /\ joined' = IF exists THEN Join(DownloadDir, Stamp(wireName, ms))
                                 ELSE Join(DownloadDir, wireName)
    /\ pathPc' = "resolved"
    /\ UNCHANGED <<wireName, created>>
    /\ UNCHANGED <<xferVars, discVars, frameVars, restVars>>

\* os.Create(savePath): fails on a directory, and may fail otherwise
PathCreate ==
    /\ pathPc = "resolved"
    /\ \E ok \in BOOLEAN :
          /\ joined \in Dirs => ~ok
          /\ created' = ok
    /\ pathPc' = "done"
    /\ UNCHANGED <<wireName, joined>>
    /\ UNCHANGED <<xferVars, discVars, frameVars, restVars>>

\* The save path of one inbound file name.
NextPath ==
    \/ PathPick
    \/ PathResolve
    \/ PathCreate

SpecPath == Init /\ [][NextPath]_vars

\* ===== locks: the statements of each goroutine between its Lock and Unlock =====

\* A statement is what it does (kind) and, for a lock operation, the mutex.
\* Kinds: lock/unlock/rlock/runlock, map (lookup, insert, delete, range of a
\* table), sockread, sockwrite, filewrite, wait (the select on the decision),
\* publish (s.broadcast), close, fs (os.Stat, os.Create), db (AddHistory),
\* chansend (pt.Response <- v), local (anything on local values).
Stmt(kind, m) == [kind |-> kind, m |-> m]
Do(kind) == Stmt(kind, "")

\* what a goroutine may wait in: for the peer, the disk, the UI or a subscriber
IOKinds == {"sockread", "sockwrite", "filewrite", "wait", "publish"}

\* a worker that publishes incoming_request before it releases the table
AfterInsertPublishFirst == <<Do("publish"), Stmt("unlock", "transfer")>>

\* s.mu.Unlock(); s.broadcast("incoming_request", pt)
AfterInsert == <<Stmt("unlock", "transfer"), Do("publish")>>

\* handleIncoming and receiveFile, statement by statement
handleIncomingStmts ==
    <<Do("sockread"),                \*  1 decoder.Decode(&meta)
      Do("close"),                   \*  2 conn.Close(); return
      Stmt("lock", "transfer"),      \*  3 s.mu.Lock()
      Do("map"),                     \*  4 _, ok := s.pending[meta.ID]
      Stmt("unlock", "transfer"),    \*  5 s.mu.Unlock() of a duplicate
      Do("map")>>                    \*  6 s.pending[meta.ID] = pt
    \o AfterInsert                   \*  7, 8
    \o
    <<Do("wait"),                    \*  9 select on pt.Response / time.After
      Do("sockwrite"),               \* 10 json.NewEncoder(conn).Encode(resp)
      Stmt("lock", "transfer"),      \* 11 s.mu.Lock()
      Do("map"),                     \* 12 delete(s.pending, meta.ID)
      Stmt("unlock", "transfer"),    \* 13 s.mu.Unlock()
      Do("close"),                   \* 14 conn.Close() of a refused transfer
      Do("publish"),                 \* 15 s.broadcast("transfer_rejected"); return
      Do("sockread"),                \* 16 skipReader.Peek(1)
      Do("fs"),                      \* 17 os.Stat(savePath)
      Do("fs"),                      \* 18 os.Create(savePath)
      Stmt("lock", "transfer"),      \* 19 s.mu.Lock()
      Do("map"),                     \* 20 s.transfers[t.ID] = t
      Stmt("unlock", "transfer"),    \* 21 s.mu.Unlock()
      Do("publish"),                 \* 22 s.broadcast("transfer_update", t)
      Do("sockread"),                \* 23 skipReader.Read(buf)
      Do("filewrite"),               \* 24 file.Write(buf[:n])
      Do("publish"),                 \* 25 the periodic s.broadcast
      Do("publish"),                 \* 26 s.broadcast after a read error
      Do("publish"),                 \* 27 s.broadcast after io.EOF
      Do("db"),                      \* 28 s.store.AddHistory
      Do("close")>>                  \* 29 the deferred conn.Close()

\* the statements that can follow each of them (0: the goroutine has returned)
handleIncomingNext ==
    <<{2, 3}, {0}, {4}, {5, 6}, {2}, {7}, {8}, {9}, {10}, {11}, {12}, {13},
      {14, 16}, {15}, {0}, {16, 17}, {18}, {19, 29}, {20}, {21}, {22}, {23},
      {24, 26, 27}, {23, 25, 26, 27}, {23, 26, 27}, {28}, {28}, {29}, {0}>>

\* AcceptTransfer / RejectTransfer; the UI goes on to make other calls
DecisionStmts ==
    <<Stmt("rlock", "transfer"),     \* 1 s.mu.RLock()
      Do("map"),                     \* 2 pt, ok := s.pending[id]
      Stmt("runlock", "transfer"),   \* 3 s.mu.RUnlock()
      Do("chansend")>>               \* 4 pt.Response <- true

DecisionNext == <<{2}, {3}, {1, 4}, {1}>>

\* the loop of listenDiscovery
listenDiscoveryStmts ==
    <<Do("sockread"),                \* 1 conn.ReadFromUDP(buf)
      Do("local"),                   \* 2 json.Unmarshal, the id checks, log.Printf
      Stmt("lock", "discovery"),     \* 3 s.mu.Lock()
      Do("map"),                     \* 4 s.devices[id] = &models.Device{...}
      Stmt("unlock", "discovery")>>  \* 5 s.mu.Unlock()

listenDiscoveryNext == <<{1, 2}, {1, 3}, {4}, {5}, {1}>>

\* GetDevices, called again and again by the UI
GetDevicesStmts ==
    <<Stmt("rlock", "discovery"),    \* 1 s.mu.RLock()
      Do("map"),                     \* 2 the range over s.devices
      Stmt("runlock", "discovery")>> \* 3 the deferred s.mu.RUnlock()

GetDevicesNext == <<{2}, {3}, {1}>>

Program(g) ==
    CASE g \in {"worker1", "worker2"} -> handleIncomingStmts
      [] g = "call" -> DecisionStmts
      [] g = "listener" -> listenDiscoveryStmts
      [] g = "reader" -> GetDevicesStmts

Successors(g) ==
    CASE g \in {"worker1", "worker2"} -> handleIncomingNext
      [] g = "call" -> DecisionNext
      [] g = "listener" -> listenDiscoveryNext
      [] g = "reader" -> GetDevicesNext

\* the statement goroutine g is at: about to run it, or waiting in it
At(g) == IF lpc[g] = 0 THEN Do("returned") ELSE Program(g)[lpc[g]]

\* g holds mutex m, for writing or for reading
Holds(g, m) == mu[m].writer = g \/ g \in mu[m].readers

\* sync.RWMutex: Lock waits for the writer and the readers to leave, RLock for
\* the writer
LockStep(g) ==
    /\ lpc[g] # 0
    /\ LET s == At(g) IN
       CASE s.kind = "lock" ->
               /\ mu[s.m] = Unlocked
               /\ mu' = [mu EXCEPT ![s.m].writer = g]
         [] s.kind = "rlock" ->
               /\ mu[s.m].writer = ""
               /\ mu' = [mu EXCEPT ![s.m].readers = @ \cup {g}]
         [] s.kind = "unlock" -> mu' = [mu EXCEPT ![s.m].writer = ""]
         [] s.kind = "runlock" -> mu' = [mu EXCEPT ![s.m].readers = @ \ {g}]
         [] OTHER -> UNCHANGED mu
    /\ \E n \in Successors(g)[lpc[g]] : lpc' = [lpc EXCEPT ![g] = n]
    /\ UNCHANGED <<xferVars, discVars, frameVars, pathVars, respCount, dialed>>

\* The goroutines that take the two table locks, each statement a step; a
\* statement that waits (a read, the select, a publish) is a step that may
\* never be taken.
NextLock == \E g \in Goroutines : LockStep(g)

SpecLock == Init /\ [][NextLock]_vars

\* Whatever connects to the listener: a peer that writes garbage or a metadata
\* frame and one payload byte, and then closes or leaves the connection open.
\* Every frame carries the same id, so two connections may present it at once
\* or one after the other. Connections are numbered as they arrive.
InboundClient(c) ==
    /\ cpc[c] = "idle"
    /\ \A d \in Conns : d < c => cpc[d] # "idle"
    /\ \E bad \in BOOLEAN, closes \in BOOLEAN :
          /\ frame' = [frame EXCEPT ![c] =
                          IF bad THEN BadFrame
                          ELSE [kind |-> "meta", id |-> PrimaryId,
                                fileSize |-> Len(RetryPayload), fileName |-> PrimaryName]]
          /\ c2s' = [c2s EXCEPT ![c] = IF bad THEN <<>> ELSE <<NL>> \o RetryPayload]
          /\ sent' = [sent EXCEPT ![c] = IF bad THEN <<>> ELSE RetryPayload]
          /\ cClosed' = [cClosed EXCEPT ![c] = closes]
    /\ cpc' = [cpc EXCEPT ![c] = "done"]
    /\ ckind' = [ckind EXCEPT ![c] = "inbound"]
    /\ UNCHANGED <<src, sErr, st, sTable, evS, s2c, sClosed, pending, chan,
                   ioErr, history>>
    /\ UNCHANGED workerVars
    /\ UNCHANGED callVars
    /\ UNCHANGED <<fsVars, discVars, codecVars>>

\* Two connections to the listener, one receive worker each, and the UI's
\* decision calls.
NextInbound ==
    \/ InboundClient(1)
    \/ InboundClient(2)
    \/ Worker(1)
    \/ Worker(2)
    \/ DecidePending

SpecInbound == Init /\ [][NextInbound]_vars

\* ===== history store (package storage) =====

Identities == {RecvIdentity, SendIdentity}
Directions == {"send", "receive"}
TerminalStatuses == {"completed", "failed", "rejected"}

\* s.store.AddHistory(userEmail, &models.TransferHistory{...}) with any
\* arguments: the callers pass getUsername() and the Transfer's fields
Record ==
    /\ \E u \in Identities, i \in Ids, d \in Directions, s \in TerminalStatuses :
          history' = AddHistory(history, u, i, d, s)
    /\ UNCHANGED <<cpc, ckind, src, sent, sErr, st, sTable, frame, c2s, s2c, cClosed,
                   sClosed, rpc, meta, dbuf, accepted, timedOut, pending, chan, rt,
                   rTable, file, ioErr, evR, evS>>
    /\ UNCHANGED callVars
    /\ UNCHANGED <<fsVars, discVars, codecVars>>

\* The transfer_history table under any sequence of AddHistory calls.
NextHistory == Record

SpecHistory == Init /\ [][NextHistory]_vars

\* SendStream for peerID = p gets past peer, ok := s.discovery.GetDevice(p)
\* and goes on to net.Dial(peer.IP, peer.Port)
SendStreamResolve(p) ==
    /\ proc[Local] = "up"
    /\ GetDevice(p).ok
    /\ dialed' = dialed \cup {p}
    /\ UNCHANGED <<xferVars, discVars, frameVars, pathVars, lockVars, respCount>>

\* Discovery of the peers and the sends the UI starts to them.
NextResolve ==
    \/ \E d \in DeviceIds : SignIn(d)
    \/ ClockTick
    \/ \E d \in DeviceIds : broadcastPresenceStart(d)
    \/ \E d \in DeviceIds : broadcastPresenceTick(d)
    \/ listenDiscoveryStart
    \/ listenDiscoveryRead
    \/ \E p \in RegistryKeys : SendStreamResolve(p)

SpecResolve == Init /\ [][NextResolve]_vars

\* ===== properties =====

\* C1: a worker that finds its frame's id already in the pending table closes
\* its connection and registers nothing: the table, every decision signal and
\* the transfer table stay as they were, so the id still maps to the original
\* PendingTransfer, and the worker publishes no event.
C1_DuplicateRefused ==
    [][\A c \in Conns :
          (rpc[c] = "register" /\ rpc'[c] # "register" /\ pending[meta[c].id] # 0)
          => /\ pending' = pending
             /\ chan' = chan
             /\ rTable' = rTable
             /\ evR'[c] = evR[c]
             /\ sClosed'[c]
             /\ rpc'[c] = "done"]_vars

\* C1 witness: a second connection was refused while the first one, which
\* presented the same id, is still awaiting its decision
C1_Witness ==
    \E c, d \in Conns :
        /\ c # d
        /\ rpc[c] = "done" /\ sClosed[c] /\ evR[c] = <<>>
        /\ meta[c].kind = "meta" /\ meta[d].id = meta[c].id
        /\ rpc[d] = "wait" /\ pending[meta[c].id] = d

\* C2: the saved file of a completed receive holds exactly the payload bytes
\* the client wrote after the metadata frame
C2_PayloadExact ==
    \A c \in Conns : rt[c].status = "completed" => file[c] = sent[c]

\* C3: no Accept/Reject call is ever stuck on its send: blocked on a full
\* decision signal whose worker has left the select and will never read it
C3_NoCallBlockedForever ==
    \A k \in Calls :
        ~(/\ callPc[k] = "send"
          /\ Len(chan[callPt[k]]) >= 1
          /\ rpc[callPt[k]] # "wait")

\* C4: a decision call returns not-found only without any side effect, and it
\* goes on to its send only for an id that is in the pending table; so a call
\* on an absent id returns not-found and changes nothing
C4_NotFoundNoEffect ==
    [][\A k \in Calls :
          /\ (callPc[k] = "idle" /\ callPc'[k] = "done")
             => /\ callRes'[k] = "notfound"
                /\ UNCHANGED <<pending, chan, rTable, sTable, rt, st, evR, evS,
                               s2c, c2s, frame, file, history, sClosed, cClosed>>
          /\ (callPc[k] = "idle" /\ callPc'[k] = "send")
             => /\ pending[callId'[k]] # 0
                /\ callPt'[k] = pending[callId'[k]]]_vars

\* C4 witness: a call returned not-found while another id was pending
C4_Witness ==
    \E k \in Calls, i \in Ids :
        callPc[k] = "done" /\ callRes[k] = "notfound" /\ pending[i] # 0

\* C5: no step lowers the progress of a Transfer, on the send side or on the
\* receive side
C5_ProgressMonotone ==
    [][\A c \in Conns :
          /\ PLeq(st[c].progress, st'[c].progress)
          /\ PLeq(rt[c].progress, rt'[c].progress)]_vars

\* C6: whatever a reader of the Transfer finds, status completed comes with
\* progress 100
C6_CompletedIs100 ==
    \A c \in Conns :
        /\ st[c].status = "completed" => PEq(st[c].progress, P100)
        /\ rt[c].status = "completed" => PEq(rt[c].progress, P100)

\* C7: progress lies between 0 and 100
C7_ProgressInRange ==
    \A c \in Conns :
        /\ st[c].progress.n >= 0 /\ PLeq(st[c].progress, P100)
        /\ rt[c].progress.n >= 0 /\ PLeq(rt[c].progress, P100)

HistoryRows(i, userEmail) == {r \in history : r.id = i /\ r.userEmail = userEmail}

\* C8: when SendStream and the receive worker have both finished a transfer
\* that was accepted, with no I/O error and no expired deadline, the sender's
\* Transfer is completed with transferred = |P| and progress 100, the saved
\* file holds exactly P, and each side has exactly one history row for the id
C8_EndToEndAccept ==
    \A c \in Conns :
        (/\ ckind[c] = "stream" /\ cpc[c] = "done" /\ rpc[c] = "done"
         /\ accepted[c] /\ ~timedOut[c] /\ ~ioErr[c] /\ sErr[c] # DeadlineError)
        => /\ st[c].status = "completed"
           /\ src[c] = <<>>
           /\ st[c].transferred = Len(sent[c])
           /\ PEq(st[c].progress, P100)
           /\ file[c] = sent[c]
           /\ Cardinality(HistoryRows(st[c].id, SendIdentity)) = 1
           /\ Cardinality(HistoryRows(st[c].id, RecvIdentity)) = 1
           /\ rt[c].id = st[c].id

\* no decision reached the worker of c: its timer expired, or it is still
\* waiting on an empty signal that no call is about to fill
Undecided(c) ==
    \/ timedOut[c]
    \/ /\ rpc[c] \in {"decode", "register", "wait"}
       /\ chan[c] = <<>>
       /\ \A k \in Calls : callPc[k] = "send" => callPt[k] # c

\* a 2-minute wait of the transfer on c ran out: the worker's or SendStream's
TimerExpired(c) == timedOut[c] \/ sErr[c] = DeadlineError

\* C9 as stated: after a timeout with no decision the sender's Transfer is
\* failed and the receiver created no file
C9_TimeoutFailed ==
    \A c \in Conns :
        (ckind[c] = "stream" /\ cpc[c] = "done" /\ Undecided(c) /\ TimerExpired(c))
        => st[c].status = "failed" /\ file[c] = NoFile

\* C9 amended: after a timeout with no decision the sender's Transfer is
\* failed (its read deadline expired first) or rejected (it read the
\* accept=false response of the timed-out worker), and the receiver created
\* no file and no Transfer
C9_TimeoutEnds ==
    \A c \in Conns :
        (ckind[c] = "stream" /\ cpc[c] = "done" /\ Undecided(c) /\ TimerExpired(c))
        => /\ st[c].status = (IF sErr[c] = DeadlineError THEN "failed" ELSE "rejected")
           /\ file[c] = NoFile
           /\ rt[c] = NoTransfer

\* C9 witness: the worker's timer fired first and the sender ended rejected
C9_Witness ==
    \E c \in Conns :
        /\ ckind[c] = "stream" /\ cpc[c] = "done" /\ rpc[c] = "done"
        /\ timedOut[c] /\ st[c].status = "rejected" /\ file[c] = NoFile

RejectedRow(i) == [id |-> i, userEmail |-> SendIdentity,
                   direction |-> "send", status |-> "rejected"]

\* C10 as stated: once the worker's decision wait has expired, the sender's
\* Transfer ends rejected, with a rejected history row and the rejection error
C10_TimeoutIsRejection ==
    \A c \in Conns :
        (ckind[c] = "stream" /\ cpc[c] = "done" /\ timedOut[c])
        => /\ st[c].status = "rejected"
           /\ RejectedRow(st[c].id) \in history
           /\ sErr[c] = "receiver rejected the transfer"

\* C10 amended: once the worker's decision wait has expired, the sender's
\* Transfer ends rejected, with a rejected history row and the rejection
\* error, unless the sender's own read deadline expired before it read the
\* response: then it ends failed, with no history row
C10_TimeoutIsRejectionUnlessDeadline ==
    \A c \in Conns :
        (ckind[c] = "stream" /\ cpc[c] = "done" /\ timedOut[c])
        => IF sErr[c] = DeadlineError
           THEN st[c].status = "failed" /\ HistoryRows(st[c].id, SendIdentity) = {}
           ELSE /\ st[c].status = "rejected"
                /\ HistoryRows(st[c].id, SendIdentity) = {RejectedRow(st[c].id)}
                /\ sErr[c] = "receiver rejected the transfer"

\* C10 witness: the timed-out worker's response was read and recorded as a
\* rejection
C10_Witness ==
    \E c \in Conns :
        /\ ckind[c] = "stream" /\ cpc[c] = "done" /\ timedOut[c]
        /\ st[c].status = "rejected"
        /\ RejectedRow(st[c].id) \in history
        /\ sErr[c] = "receiver rejected the transfer"

\* C11: a device is in GetDevices() exactly when now - lastSeen is below 10
\* seconds; one that was last seen more than 10 seconds ago is absent from
\* GetDevices() while GetDevice(id) still returns its record; and whenever the
\* listener takes in an advertisement that changes the record, lastSeen is the
\* arrival time and the device is in GetDevices() again
C11_LivenessWindow ==
    [][/\ \A d \in DeviceIds :
             /\ (d \in GetDevices) <=> (devices[d].seen /\ now - devices[d].lastSeen < 10)
             /\ (devices[d].seen /\ now - devices[d].lastSeen > 10)
                => /\ d \notin GetDevices
                   /\ GetDevice(d).ok
                   /\ GetDevice(d).device = devices[d]
       /\ \A d \in DeviceIds :
             /\ (d \in GetDevices') <=> (devices'[d].seen /\ now' - devices'[d].lastSeen < 10)
             /\ devices'[d] # devices[d]
                => /\ devices'[d].lastSeen = now
                   /\ d \in GetDevices']_vars

\* C11 witness: a device that advertised once has not been heard of for more
\* than 10 seconds: it is gone from GetDevices() and GetDevice still finds it
C11_Witness ==
    \E d \in DeviceIds :
        /\ devices[d].seen
        /\ now - devices[d].lastSeen > 10
        /\ d \notin GetDevices
        /\ GetDevice(d).ok

\* C12: a SendStream call that returns before the handshake (the peer id is not
\* in the registry, the dial fails or the metadata encode fails) returns an
\* error and leaves the sender's Transfer table as it was, creates no Transfer
\* record, publishes no event and records no history
C12_UnreachableNoTrace ==
    [][\A c \in Conns :
          (cpc[c] = "idle" /\ cpc'[c] = "done" /\ ckind'[c] = "stream")
          => /\ sErr'[c] \in {"peer not found", "dial peer", "send metadata"}
             /\ sTable' = sTable
             /\ st' = st
             /\ st'[c] = NoTransfer
             /\ evS' = evS
             /\ history' = history]_vars

\* C12 witness: SendStream has returned the dial error, and no Transfer,
\* event or history row exists
C12_Witness ==
    \E c \in Conns :
        /\ ckind[c] = "stream" /\ cpc[c] = "done" /\ sErr[c] = "dial peer"
        /\ st[c] = NoTransfer /\ evS[c] = <<>> /\ history = {}
        /\ \A i \in Ids : sTable[i] = 0

\* C13: when a worker has stopped with its Transfer in status completed,
\* failed or rejected, on the send side or on the receive side, the history
\* holds an entry with that Transfer's id and that status
C13_HistoryOnTerminal ==
    \A c \in Conns :
        /\ (cpc[c] = "done" /\ st[c].status \in TerminalStatuses)
           => \E r \in history :
                 r.id = st[c].id /\ r.direction = "send" /\ r.status = st[c].status
        /\ (rpc[c] = "done" /\ rt[c].status \in TerminalStatuses)
           => \E r \in history :
                 r.id = rt[c].id /\ r.direction = "receive" /\ r.status = rt[c].status

\* C14: no receive creates or truncates a path that already exists in the
\* download directory, whether it was there before or another receive made it
C14_NeverOverwrite ==
    [][\A c \in Conns :
          (rpc[c] = "create" /\ rpc'[c] = "stream") => savePath[c] \notin disk]_vars

\* C15: a pass of the advertiser writes a presence datagram exactly when the
\* identity source reports a non-empty identity at that pass; every datagram
\* put on the network carries a non-empty identity of a signed-in device; so
\* a device that has never been signed in is in no registry
C15_AdvertiseIffIdentity ==
    [][/\ \A d \in DeviceIds :
             lastTick'[d] # lastTick[d]
             => ((lastTick'[d] = "wrote") <=> (identity[d] # ""))
       /\ \A dg \in dgrams' \ dgrams :
             /\ dg.username # ""
             /\ identity[dg.id] # ""
             /\ lastTick'[dg.id] = "wrote"
       /\ \A d \in DeviceIds :
             /\ devices[d].seen => identity[d] # ""
             /\ devices'[d].seen => identity'[d] # ""]_vars

\* C15 witness: the local device, not signed in, has skipped a pass and sent
\* nothing, while the signed-in peer has advertised and is in the registry
C15_Witness ==
    /\ identity[Local] = "" /\ lastTick[Local] = "skipped"
    /\ \A dg \in dgrams : dg.id # Local
    /\ lastTick["peer"] = "wrote" /\ devices["peer"].seen

\* C16: the frame the decoder yields from the encoding of a metadata frame
\* equals that frame in all five fields
C16_RoundTrip ==
    codecPc = "decoded"
    => /\ mOut.id = mIn.id
       /\ mOut.fileName = mIn.fileName
       /\ mOut.fileSize = mIn.fileSize
       /\ mOut.senderId = mIn.senderId
       /\ mOut.senderName = mIn.senderName

\* C17: the local process never keeps running once the start-up of its
\* discovery listener or of its TCP listener has failed: a failed bind has
\* aborted it
C17_StartupFatal ==
    proc[Local] = "up" => (listener # "absent" /\ tcpListener # "absent")

\* the worker of c has obtained its decision (from the signal or by timeout)
\* and has not yet removed its PendingTransfer
DecisionObtained(c) == rpc[c] \in {"respond", "delete"}

\* C18: a decision call that starts once the worker has obtained its decision
\* does not find the PendingTransfer: it never passes the lookup and goes on
\* to deliver on the signal
C18_NotFoundAfterDecision ==
    [][\A k \in Calls :
          (callPc[k] = "idle" /\ callPc'[k] = "send")
          => ~DecisionObtained(callPt'[k])]_vars

\* the select of worker c returns in this step
LeavesSelect(c) == rpc[c] = "wait" /\ rpc'[c] = "respond"

\* the decision calls that have delivered their value
Delivered == {k \in Calls : callRes[k] = "ok"}

\* C19: the worker takes a value from the decision signal at most once, in
\* its select, and that value is the first one delivered; on timeout it
\* takes none and decides false; the response frame it writes carries that
\* decision; and nothing delivered later changes the decision or what the
\* worker does with the connection
C19_DecisionOnce ==
    [][\A c \in Conns :
          /\ (LeavesSelect(c) /\ ~timedOut'[c])
             => /\ Cardinality(Delivered) = 1
                /\ chan[c] = <<accepted'[c]>>
                /\ chan'[c] = <<>>
          /\ (LeavesSelect(c) /\ timedOut'[c])
             => /\ accepted'[c] = FALSE
                /\ chan'[c] = chan[c]
          /\ ~LeavesSelect(c)
             => /\ accepted'[c] = accepted[c]
                /\ Len(chan'[c]) >= Len(chan[c])
                /\ SubSeq(chan'[c], 1, Len(chan[c])) = chan[c]
          /\ (rpc[c] = "respond" /\ rpc'[c] = "delete")
             => s2c'[c] = IF cClosed[c] THEN s2c[c] ELSE Append(s2c[c], accepted[c])
          /\ (rpc[c] = "delete" /\ rpc'[c] # "delete")
             => rpc'[c] = IF accepted[c] THEN "skip" ELSE "done"]_vars

\* C19 witness: the first value delivered was accept, a Reject was delivered
\* after the worker had decided, and the receive still ran to completion
C19_Witness ==
    \E c \in Conns :
        /\ accepted[c] /\ ~timedOut[c]
        /\ chan[c] = <<FALSE>>
        /\ rpc[c] = "done" /\ rt[c].status = "completed"

\* worker c registered a PendingTransfer and its select ended without an
\* accept: by the timer or by a delivered false
Refused(c) == rpc[c] \in {"respond", "delete"} /\ ~accepted[c]

\* worker c returned from handleIncoming on the `if !accepted` branch
RefusedEnd(c) == rpc[c] = "done" /\ evR[c] # <<>> /\ ~accepted[c]

\* C20: after its select, a worker whose wait timed out does what a worker
\* that was given an explicit Reject does: it writes a response frame with
\* accept=false (lost only if the client has closed), removes the
\* PendingTransfer, closes the connection and publishes one transfer_rejected
\* event with the id; it creates no Transfer, no file and no history row
C20_TimeoutAsReject ==
    /\ [][\A c \in Conns :
             Refused(c) =>
               /\ (rpc[c] = "respond" /\ rpc'[c] # "respond")
                  => /\ rpc'[c] = "delete"
                     /\ s2c'[c] = IF cClosed[c] THEN s2c[c] ELSE Append(s2c[c], FALSE)
               /\ (rpc[c] = "delete" /\ rpc'[c] # "delete")
                  => /\ rpc'[c] = "done"
                     /\ pending[meta[c].id] = c
                     /\ pending'[meta[c].id] = 0
                     /\ sClosed'[c]
                     /\ evR'[c] = Append(evR[c], Event("transfer_rejected", meta[c].id, NoTransfer))
               /\ rt'[c] = NoTransfer /\ file'[c] = NoFile /\ savePath'[c] = NoPath
               /\ rTable' = rTable /\ disk' = disk
               /\ HistoryRows(meta[c].id, RecvIdentity)' = {}]_vars
    /\ [](\A c \in Conns :
             RefusedEnd(c) =>
               /\ sClosed[c]
               /\ pending[meta[c].id] # c
               /\ evR[c] = <<Event("incoming_request", meta[c].id, NoTransfer),
                             Event("transfer_rejected", meta[c].id, NoTransfer)>>
               /\ rt[c] = NoTransfer /\ file[c] = NoFile /\ savePath[c] = NoPath
               /\ rTable[meta[c].id] # c
               /\ HistoryRows(meta[c].id, RecvIdentity) = {})

\* C20 witness: a worker whose wait timed out has returned, with the response
\* frame written to a client that was still connected
C20_Witness ==
    \E c \in Conns :
        /\ RefusedEnd(c) /\ timedOut[c] /\ chan[c] = <<>>
        /\ Len(evR[c]) = 2 /\ evR[c][2].type = "transfer_rejected"
        /\ ckind[c] = "stream" /\ st[c].status = "rejected"

\* C21: once an id is in the pending table, the worker that registered it
\* eventually removes it (at every moment the id is absent then or later),
\* with no assumption on the decision calls; and an
\* entry leaves the table only in the step of its own worker that follows the
\* Encode of the response frame
C21_PendingRemoved ==
    /\ \A i \in Ids : []<>(pending[i] = 0)
    /\ [][\A i \in Ids :
             (pending[i] # 0 /\ pending'[i] # pending[i])
             => /\ pending'[i] = 0
                /\ rpc[pending[i]] = "delete"
                /\ meta[pending[i]].id = i]_vars
    /\ [][\A c \in Conns :
             rpc'[c] = "delete" /\ rpc[c] # "delete"
             => /\ rpc[c] = "respond"
                /\ s2c'[c] = IF cClosed[c] THEN s2c[c] ELSE Append(s2c[c], accepted[c])]_vars

\* C21 witness: an entry was removed after a timeout, with no decision call
\* ever started
C21_Witness ==
    \E c \in Conns :
        /\ timedOut[c] /\ rpc[c] = "done" /\ meta[c].kind = "meta"
        /\ pending[meta[c].id] = 0
        /\ \A k \in Calls : callPc[k] = "idle"

\* C22: when Decode of the metadata frame fails, the worker closes the
\* connection and returns: the pending table and both Transfer tables are
\* unchanged, no event is published, no response frame is written, no decision
\* signal, file or history row is touched; a worker that ended this way has
\* published nothing and written nothing
C22_MalformedFrame ==
    /\ [][\A c \in Conns :
             (rpc[c] = "decode" /\ rpc'[c] # "decode" /\ frame[c] = BadFrame)
             => /\ rpc'[c] = "done"
                /\ sClosed'[c]
                /\ UNCHANGED <<pending, rTable, sTable, rt, st, evR, evS, s2c, chan,
                               file, history, disk, savePath>>]_vars
    /\ [](\A c \in Conns :
             (rpc[c] = "done" /\ meta[c] = NoFrame)
             => /\ sClosed[c]
                /\ evR[c] = <<>> /\ s2c[c] = <<>>
                /\ rt[c] = NoTransfer /\ file[c] = NoFile
                /\ \A i \in Ids : pending[i] # c /\ rTable[i] # c)

\* C22 witness: a worker returned on a malformed frame
C22_Witness ==
    \E c \in Conns :
        /\ ckind[c] = "raw" /\ rpc[c] = "done" /\ meta[c] = NoFrame
        /\ sClosed[c] /\ evR[c] = <<>> /\ s2c[c] = <<>>

\* the transfer_rejected events worker c published
RejectedPublished(c) == {n \in DOMAIN evR[c] : evR[c][n].type = "transfer_rejected"}

\* C23: a path is created in the download directory and a receive Transfer is
\* stored only by a worker whose decision was accept, through a delivered
\* value; a worker whose decision was reject or timeout has closed its
\* connection and published exactly one transfer_rejected event, and has no
\* save path, no file and no Transfer; an accepted worker publishes none
C23_OnlyAcceptedReceives ==
    /\ [][(disk' # disk \/ rTable' # rTable \/ rt' # rt \/ file' # file \/ savePath' # savePath)
          => \E c \in Conns :
                /\ accepted[c] /\ ~timedOut[c]
                /\ rpc[c] \in {"skip", "create", "stream", "finish"}
                /\ \A d \in Conns \ {c} :
                      rt'[d] = rt[d] /\ file'[d] = file[d] /\ savePath'[d] = savePath[d]]_vars
    /\ [](\A c \in Conns :
             /\ (rt[c] # NoTransfer \/ file[c] # NoFile \/ savePath[c] # NoPath)
                => accepted[c] /\ ~timedOut[c]
             /\ RefusedEnd(c)
                => /\ sClosed[c]
                   /\ Cardinality(RejectedPublished(c)) = 1
                   /\ rt[c] = NoTransfer /\ file[c] = NoFile /\ savePath[c] = NoPath
                   /\ \A i \in Ids : rTable[i] # c
             /\ accepted[c] => RejectedPublished(c) = {})
    /\ [](\A i \in Ids : rTable[i] # 0 => accepted[rTable[i]] /\ rt[rTable[i]].id = i)

\* C23 witness: an accepted worker created its file and stored its Transfer
C23_Witness ==
    \E c \in Conns :
        /\ accepted[c] /\ rpc[c] = "stream"
        /\ savePath[c] \in disk /\ file[c] = <<>>
        /\ rt[c].status = "receiving" /\ rTable[rt[c].id] = c

\* the row AddHistory records for a failed receive of id i
FailedRow(i) == [id |-> i, userEmail |-> RecvIdentity,
                 direction |-> "receive", status |-> "failed"]

\* C24: a receive that was struck by an I/O error while streaming (a failed
\* read of the connection or a failed write to the file) never is completed,
\* and once its worker has stopped the Transfer is failed, its last event is
\* the transfer_update that says so, and a failed history row is recorded
C24_StreamErrorFails ==
    \A c \in Conns :
        (ioErr[c] /\ rt[c] # NoTransfer)
        => /\ rt[c].status # "completed"
           /\ rpc[c] = "done"
              => /\ rt[c].status = "failed"
                 /\ evR[c][Len(evR[c])] = Event("transfer_update", rt[c].id, rt[c])
                 /\ FailedRow(rt[c].id) \in history

\* the status changes the code makes, by direction
StatusSteps ==
    {<<"waiting_acceptance", "sending">>, <<"waiting_acceptance", "rejected">>,
     <<"waiting_acceptance", "failed">>, <<"sending", "completed">>,
     <<"sending", "failed">>, <<"receiving", "completed">>, <<"receiving", "failed">>}

\* what a reader of Service.transfers finds under id i
ReceiverEntry(i) == IF rTable[i] = 0 THEN NoTransfer ELSE rt[rTable[i]]
SenderEntry(i) == IF sTable[i] = 0 THEN NoTransfer ELSE st[sTable[i]]

\* C25: the status of a table entry changes only along waiting_acceptance ->
\* {sending, rejected, failed}, sending -> {completed, failed} and receiving ->
\* {completed, failed}; and an entry whose status is completed, failed or
\* rejected never changes again, in status, transferred or progress
C25_TerminalAbsorbing ==
    [][\A i \in Ids :
          /\ (ReceiverEntry(i) # NoTransfer /\ ReceiverEntry(i)'.status # ReceiverEntry(i).status)
             => <<ReceiverEntry(i).status, ReceiverEntry(i)'.status>> \in StatusSteps
          /\ (SenderEntry(i) # NoTransfer /\ SenderEntry(i)'.status # SenderEntry(i).status)
             => <<SenderEntry(i).status, SenderEntry(i)'.status>> \in StatusSteps
          /\ ReceiverEntry(i).status \in TerminalStatuses
             => ReceiverEntry(i)' = ReceiverEntry(i)
          /\ SenderEntry(i).status \in TerminalStatuses
             => SenderEntry(i)' = SenderEntry(i)]_vars

\* C26: a send Transfer does not stay in waiting_acceptance: at every moment
\* it is out of that status then or later, whatever the receiver does; it
\* leaves to sending, rejected or failed, and to failed when no response frame
\* was there to read
C26_ResponseWaitBounded ==
    /\ \A c \in Conns : []<>(st[c].status # "waiting_acceptance")
    /\ [][\A c \in Conns :
             (st[c].status = "waiting_acceptance" /\ st'[c].status # st[c].status)
             => /\ st'[c].status \in {"sending", "rejected", "failed"}
                /\ s2c[c] = <<>> => st'[c].status = "failed"
                /\ s2c[c] # <<>> =>
                      st'[c].status = (IF Head(s2c[c]) THEN "sending" ELSE "rejected")]_vars

\* C26 witness: the read deadline ended a wait that the receiver, stalled
\* before its response, never answered
C26_Witness ==
    \E c \in Conns :
        /\ st[c].status = "failed" /\ sErr[c] = DeadlineError
        /\ s2c[c] = <<>> /\ rpc[c] \in {"decode", "register", "wait"}

\* C27: every path that receiveFile creates lies inside the download directory
C27_SavePathInside == created => Inside(joined)

\* the record the listener stores for datagram dg
Upserted(dg) == [devices EXCEPT ![dg.id] =
                    [seen |-> TRUE, username |-> dg.username, lastSeen |-> now]]

\* C28: the registry never holds a record under the own id or the empty id;
\* the registry changes only by the upsert of a datagram that carries another
\* device's id, so a malformed, id-less or self-originated datagram leaves it
\* as it is; a running listener never stops; and while it runs, every valid
\* datagram on the group can be taken in
C28_RegistryIngestion ==
    /\ [](~devices[Local].seen /\ ~devices[""].seen)
    /\ [][/\ devices' # devices
             => /\ listener = "listening"
                /\ \E dg \in dgrams : dg.id \notin {"", Local} /\ devices' = Upserted(dg)
          /\ listener = "listening" => listener' = "listening"]_vars
    /\ [](\A dg \in dgrams :
             (listener = "listening" /\ proc[Local] = "up" /\ dg.id \notin {"", Local})
             => ENABLED (listenDiscoveryRead /\ devices' = Upserted(dg)))

\* C28 witness: the listener has taken in a peer's datagram while the own
\* advertisement is on the group, and holds no record of itself
C28_Witness ==
    /\ listener = "listening"
    /\ \E dg \in dgrams : dg.id = Local
    /\ devices["peer"].seen
    /\ ~devices[Local].seen

\* C29: a device whose user has logged out (or never signed in) reports the
\* empty identity, so its advertiser writes nothing: every pass it makes is a
\* skipped one and no datagram of the device is put on the group
C29_SignedOutSilent ==
    /\ [](\A d \in DeviceIds : ~session[d] => identity[d] = "")
    /\ [][\A d \in DeviceIds :
             ~session[d]
             => /\ lastTick'[d] \in {lastTick[d], "skipped"}
                /\ \A dg \in dgrams' \ dgrams : dg.id # d]_vars

\* the transfer_update events worker c has published for id i
UpdatesOf(c, i) ==
    {n \in DOMAIN evR[c] : evR[c][n].type = "transfer_update" /\ evR[c][n].id = i}

\* C30: when a worker publishes a transfer_update for an id, every update
\* published for that id before, by itself or by another worker, carries a
\* transferred value that is not larger, and any other worker that published
\* for the id has finished
C30_UpdatesOrdered ==
    [][\A c \in Conns :
          (Len(evR'[c]) > Len(evR[c]) /\ evR'[c][Len(evR'[c])].type = "transfer_update")
          => LET e == evR'[c][Len(evR'[c])] IN
             /\ \A n \in UpdatesOf(c, e.id) : evR[c][n].transferred <= e.transferred
             /\ \A d \in Conns \ {c} :
                   \A n \in UpdatesOf(d, e.id) :
                       /\ evR[d][n].transferred <= e.transferred
                       /\ rpc[d] = "done"]_vars

\* C31: a goroutine that holds a table lock (the pending/transfer table's or
\* the device registry's) is at a map operation or at the release of the lock,
\* never in a socket read or write, a file write, the decision wait or a
\* publish; so whatever a goroutine waits in, it holds no lock, and a lock
\* that is taken is held by a goroutine that can run on to its release
C31_NoIOUnderLock ==
    /\ \A g \in Goroutines, m \in Mutexes :
          Holds(g, m) => At(g).kind \in {"map", "unlock", "runlock"}
    /\ \A g \in Goroutines :
          At(g).kind \in IOKinds => \A m \in Mutexes : ~Holds(g, m)
    /\ \A m \in Mutexes :
          mu[m] # Unlocked => \E g \in Goroutines : Holds(g, m) /\ ENABLED LockStep(g)

\* C31 witness: one worker waits for its decision, the other is inside the
\* locked section of the pending table, and the listener holds the registry
C31_Witness ==
    /\ At("worker1").kind = "wait"
    /\ Holds("worker2", "transfer") /\ At("worker2").kind = "map"
    /\ Holds("listener", "discovery")

\* worker c stored its PendingTransfer (it publishes incoming_request right
\* after the insert)
Registered(c) == \E n \in DOMAIN evR[c] : evR[c][n].type = "incoming_request"

\* C32: the worker of a connection hands at most one response frame to the
\* encoder; it has handed over exactly one once it is past the Encode, which
\* only a worker that registered a PendingTransfer reaches, and none before;
\* a worker that dropped its connection as malformed or as a duplicate hands
\* over none and nothing is on its connection; the Encode follows the select,
\* which was left by a delivered decision or by the timeout, and the frame
\* carries that decision
C32_OneResponseFrame ==
    /\ [](\A c \in Conns :
             /\ respCount[c] <= 1
             /\ Len(s2c[c]) <= respCount[c]
             /\ respCount[c] = 1 <=>
                   \/ rpc[c] \in {"delete", "skip", "create", "stream", "finish"}
                   \/ rpc[c] = "done" /\ Registered(c)
             /\ ~Registered(c) => respCount[c] = 0)
    /\ [][\A c \in Conns :
             /\ respCount'[c] # respCount[c]
                => /\ rpc[c] = "respond"
                   /\ Registered(c)
                   /\ cClosed[c] \/ s2c'[c] = Append(s2c[c], accepted[c])
             /\ (rpc'[c] = "respond" /\ rpc[c] # "respond")
                => /\ rpc[c] = "wait"
                   /\ \/ timedOut'[c] /\ ~accepted'[c]
                      \/ chan[c] # <<>> /\ accepted'[c] = Head(chan[c])]_vars

\* C32 witness: one connection was registered and has its one response frame
\* on it; another, which presented the same id meanwhile, was dropped as a
\* duplicate and has none
C32_Witness ==
    \E c, d \in Conns :
        /\ Registered(c) /\ respCount[c] = 1 /\ s2c[c] # <<>>
        /\ rpc[d] = "done" /\ ~Registered(d) /\ meta[d].id = meta[c].id
        /\ respCount[d] = 0 /\ s2c[d] = <<>>

\* the rows stored under (id, identity)
RowsOf(h, i, u) == {r \in h : r.id = i /\ r.userEmail = u}

\* C33: in every store that AddHistory calls can build there is at most one
\* row per (id, identity); a call for a pair that is stored returns the store
\* as it is, so the first row and its status stay; a call for a pair that is
\* not stored adds exactly its row, whatever is stored for the same id under
\* another identity; and a second call for the same pair, with any direction
\* and status, changes nothing
C33_RecordIdempotent ==
    /\ \A i \in Ids, u \in Identities : Cardinality(RowsOf(history, i, u)) <= 1
    /\ \A u \in Identities, i \in Ids, d \in Directions, s \in TerminalStatuses :
          LET h1 == AddHistory(history, u, i, d, s)
              row == [id |-> i, userEmail |-> u, direction |-> d, status |-> s]
          IN  /\ RowsOf(history, i, u) # {} => h1 = history
              /\ RowsOf(history, i, u) = {} => h1 = history \cup {row}
              /\ Cardinality(RowsOf(h1, i, u)) = 1
              /\ \A d2 \in Directions, s2 \in TerminalStatuses :
                    AddHistory(h1, u, i, d2, s2) = h1

\* C33 witness: one id is stored under both identities, with different
\* statuses, and a further call for one of the pairs would carry another status
C33_Witness ==
    /\ [id |-> "id1", userEmail |-> SendIdentity, direction |-> "send",
        status |-> "rejected"] \in history
    /\ [id |-> "id1", userEmail |-> RecvIdentity, direction |-> "receive",
        status |-> "failed"] \in history
    /\ Cardinality(history) = 2

\* C34: an AcceptTransfer that returned nil has put true into the decision
\* signal of the worker it looked up; that worker takes it in its select and
\* answers accept=true, so a true that lies in the signal of a worker which is
\* past its select belongs to a worker that accepted
C34_AcceptHonoured ==
    \A w \in Conns :
        (chan[w] # <<>> /\ Head(chan[w]) /\ rpc[w] \notin {"decode", "register", "wait"})
        => accepted[w]

\* C35: a receive Transfer in status completed has received as many bytes as
\* the metadata frame declared
C35_CompletedIsWhole ==
    \A c \in Conns :
        (rt[c].direction = "receive" /\ rt[c].status = "completed")
        => rt[c].transferred = rt[c].fileSize

\* C36: when SendStream and the receive worker of its connection have both
\* ended, a sender's Transfer that is completed has a completed receive
\* Transfer with a saved file beside it, and a sender's Transfer that is
\* failed or rejected has no completed receive Transfer beside it
C36_OutcomesAgree ==
    \A c \in Conns :
        (ckind[c] = "stream" /\ cpc[c] = "done" /\ rpc[c] = "done")
        => /\ st[c].status = "completed"
              => rt[c].status = "completed" /\ file[c] # NoFile
           /\ st[c].status \in {"failed", "rejected"} => rt[c].status # "completed"

\* C37: a peer that SendStream goes on to dial is one GetDevices() returns at
\* that moment: it was seen less than 10 seconds ago
C37_DialsOnlyLive == [][\A p \in dialed' \ dialed : p \in GetDevices]_vars

\* C38: from its insert to its delete a worker finds its own PendingTransfer
\* under its id, whatever other connections present that id meanwhile; its
\* delete(pending, id) therefore removes the entry it inserted, and nothing
\* else of the table changes in that step
C38_DeletesOwnEntry ==
    /\ [](\A c \in Conns :
             rpc[c] \in {"wait", "respond", "delete"} => pending[meta[c].id] = c)
    /\ [][\A c \in Conns :
             (rpc[c] = "delete" /\ rpc'[c] # "delete")
             => /\ pending[meta[c].id] = c
                /\ pending' = [pending EXCEPT ![meta[c].id] = 0]]_vars

\* C38 witness: a worker is about to delete its entry after another
\* connection presented the same id and was turned away
C38_Witness ==
    \E c, d \in Conns :
        /\ c # d /\ meta[d].id = meta[c].id
        /\ rpc[c] = "delete" /\ pending[meta[c].id] = c
        /\ rpc[d] = "done" /\ ~Registered(d) /\ sClosed[d]

\* C39: a worker that has returned has closed its connection, whichever return
\* it took: malformed metadata, duplicate id, rejection, timeout, failed file
\* creation, stream error or completion; the connection is closed in the step
\* in which the worker returns and stays closed
C39_ReturnedIsClosed ==
    /\ [](\A c \in Conns : rpc[c] = "done" => sClosed[c])
    /\ [][\A c \in Conns :
             /\ sClosed[c] => sClosed'[c]
             /\ sClosed'[c] # sClosed[c] => rpc[c] # "done" /\ rpc'[c] = "done"]_vars

\* C39 witness: one worker returned from receiveFile because the file could not
\* be created, another from handleIncoming on malformed metadata; both
\* connections are closed
C39_Witness ==
    \E c, d \in Conns :
        /\ rpc[c] = "done" /\ accepted[c] /\ ioErr[c] /\ file[c] = NoFile /\ sClosed[c]
        /\ rpc[d] = "done" /\ meta[d] = NoFrame /\ sClosed[d]

\* the errors SendStream returns when the Decode of the response fails
ResponseErrors == {DeadlineError, "reading response: EOF"}

\* C40: SendStream has written no payload byte and counted none while it has
\* not read a response, after it read accept=false, and after its Decode of
\* the response failed; payload is written and counted only in the streaming
\* loop of a Transfer in status sending, and the loop is entered only by
\* reading a response frame with accept=true
C40_PayloadAfterAccept ==
    /\ [](\A c \in Conns :
             (/\ ckind[c] = "stream"
              /\ \/ cpc[c] \in {"idle", "waitresp"}
                 \/ st[c].status \in {"waiting_acceptance", "rejected"}
                 \/ st[c].status = "failed" /\ sErr[c] \in ResponseErrors)
             => sent[c] = <<>> /\ st[c].transferred = 0 /\ c2s[c] \in {<<>>, <<NL>>})
    /\ [][\A c \in Conns :
             /\ (ckind'[c] = "stream"
                 /\ (sent'[c] # sent[c] \/ st'[c].transferred # st[c].transferred))
                => cpc[c] = "stream" /\ st[c].status = "sending"
             /\ (ckind[c] = "stream" /\ cpc'[c] = "stream" /\ cpc[c] # "stream")
                => cpc[c] = "waitresp" /\ s2c[c] # <<>> /\ Head(s2c[c])]_vars

\* C40 witness: a SendStream with payload to send was refused and has sent none
\* of it
C40_Witness ==
    \E c \in Conns :
        /\ ckind[c] = "stream" /\ cpc[c] = "done" /\ st[c].status = "rejected"
        /\ src[c] # <<>> /\ sent[c] = <<>> /\ st[c].transferred = 0

====
